---- MODULE Spec2Model ----
(***************************************************************************)
(* Model of the megaton runtime's exlaunch memory utilities:               *)
(*   - exl/lib/util/sys/soc.hpp             (SoC capability detector)      *)
(*   - exl/lib/util/sys/cur_proc_handle.cpp (process handle provider)      *)
(*   - exl/lib/util/sys/rw_pages.cpp        (region mirror mapper)         *)
(*   - megaton/assert.hpp                   (assert_ / panic_ macros)      *)
(* uintptr_t is modelled as an unsigned integer of AddrBits bits; all      *)
(* address arithmetic wraps modulo 2^AddrBits as the C code wraps modulo   *)
(* 2^64.                                                                   *)
(***************************************************************************)
EXTENDS Integers, Sequences, FiniteSets, TLC

\* ------------------------------------------------------------------ bounds
\* width of uintptr_t / size_t in the model
AddrBits == 16
\* how many times the program calls InitSocType in one run
MaxInitCalls == 1
\* how many times the program calls proc_handle::Get() directly in one run
MaxGetCalls == 2
\* how many distinct handle values the kernel may hand out
NumHandles == 2
\* pages of the read-execute code region
CodePagesN == 4
\* how many non-owning copies of the RwPages object are made
MaxCopies == 1
\* how many times Flush() is called
MaxFlushCalls == 2
\* the pool sizes of a build configuration go up to this many pages
MaxCfgPages == 3
\* the number of threads that call Get()
NumThreads == 2
\* how many times the threads call Get(), all together
MaxThreadCalls == 3
\* how many times megaton_format_panic_message is called without a panic
MaxFormatCalls == 1
\* how many assert_ statements pass
MaxAsserts == 1

\* ------------------------------------------------------- program constants
PAGE_SIZE == 4096

AddrSpace == 2 ^ AddrBits
Addr == 0 .. (AddrSpace - 1)

\* ---------------------------------------------------------- machine words
\* x & y on AddrBits-bit words, bit by bit
RECURSIVE BitAndRec(_, _, _)
BitAndRec(x, y, n) ==
    IF n = 0 THEN 0
    ELSE (IF x % 2 = 1 /\ y % 2 = 1 THEN 1 ELSE 0)
         + 2 * BitAndRec(x \div 2, y \div 2, n - 1)

BitAnd(x, y) == BitAndRec(x, y, AddrBits)

\* ~x on AddrBits-bit words
BitNot(x) == (AddrSpace - 1) - x

\* (uintptr_t) v : wrap to the word
Word(v) == v % AddrSpace

\* faulty variant: the rounding term is left out, so the value is rounded down
ALIGN_UP_RoundsDown(x, a) == BitAnd(Word(x), BitNot(Word(Word(a) - 1)))

\* #define ALIGN_UP(x, a) ((((uintptr_t)x) + (((uintptr_t)a)-1)) & ~(((uintptr_t)a)-1))
ALIGN_UP(x, a) == BitAnd(Word(Word(x) + Word(Word(a) - 1)), BitNot(Word(Word(a) - 1)))

\* faulty variant: the value is rounded to the page boundary above it
ALIGN_DOWN_RoundsUp(x, a) == ALIGN_UP(x, a)

\* #define ALIGN_DOWN(x, a) ((uintptr_t)(x) & ~(((uintptr_t)(a)) - 1))
ALIGN_DOWN(x, a) == BitAnd(Word(x), BitNot(Word(Word(a) - 1)))

VARIABLES
    \* fatal-error sink: "" while running, else the message handed to megaton_panic
    panicMsg,
    \* --- soc.hpp
    hwConfig,       \* the hardware type smcGetConfig reports on this device
    socPc,          \* position inside InitSocType: "idle" | "switch"
    hwtype,         \* local of InitSocType
    smcRc,          \* result of the last smcGetConfig call
    s_SocType,      \* impl::s_SocType
    socWrites,      \* number of assignments to s_SocType
    initCalls,      \* number of InitSocType calls started
    initDone,       \* number of InitSocType calls that returned
    lastIsErista,   \* last value returned by IsSocErista(), "none" before
    lastIsMariko,   \* last value returned by IsSocMariko(), "none" before
    \* --- cur_proc_handle.cpp
    s_Handle,       \* the process-wide cache
    mainPc,         \* position of the calling thread
    getRet,         \* where Get() returns to
    workerPc,       \* position of the thread running ReceiveProcessHandleThreadMain
    openHandles,    \* kernel handles of the fallback that are open
    reqPending,     \* a sync request is queued on the session, not yet received
    workerTls3,     \* word 3 of the worker's TLS message buffer
    svcCalls,       \* kernel operation -> number of calls made
    svcFailed,      \* kernel operations that returned a failure
    closeCalls,     \* handle -> number of svcCloseHandle calls on it
    getCalls,       \* number of direct Get() calls started
    getReturns,     \* the values Get() returned, in order
    acqRuns,        \* number of GetViaMesosphere runs
    ipcRuns,        \* number of GetViaIpcTrick runs
    handleWrites,   \* number of assignments to s_Handle
    \* --- rw_pages.cpp
    layout,         \* the starts of the kernel's memory blocks
    layoutAtMap,    \* the value of layout when the constructor walked the range
    mirror,         \* page of the mirror range -> the code page it maps, or NoPage
    reservations,   \* the virtual-address reservations held
    objState,       \* RwPages object -> "none" | "constructing" | "live" | "destroying" | "destroyed"
    objOwner,       \* RwPages object -> m_Owner
    objClaim,       \* RwPages object -> m_Claim
    cur,            \* the object whose constructor or destructor runs (this)
    alignedRw,      \* local of the constructor
    procHandle,     \* local of the constructor and of the destructor
    wStart,         \* ForEachMemRange: start_address
    wLen,           \* ForEachMemRange: length
    meminfo,        \* ForEachMemRange: meminfo (addr, size)
    walkKind,       \* ForEachMemRange: the callback, "map" or "unmap"
    walkCalls,      \* the callback invocations of the walk under way
    mapCalls,       \* the svcMapProcessMemory calls made
    unmapCalls,     \* the svcUnmapProcessMemory calls made
    cacheOps,       \* the cache maintenance calls made
    releaseCount,   \* number of virtmemRemoveReservation calls
    flushCalls,     \* number of Flush() calls
    ctorFailed,     \* the steps of the constructor that failed
    crashed,        \* the process took a data abort or runs on a corrupted stack
    \* --- usersetting.hpp
    JitSize,        \* exl::setting::JitSize
    InlinePoolSize, \* exl::setting::InlinePoolSize
    buildResult,    \* "pending" before the build, then "accepted" or "rejected"
    \* --- cur_proc_handle.cpp, Get() called from several threads
    tPc,            \* thread -> its position inside Get()
    tGot,           \* thread -> the value of s_Handle it holds in a register
    tOverlap,       \* a thread entered Get() while another was inside, the cache empty
    \* --- assert.hpp, assert.cpp
    pPc,            \* position of the code that asserts, panics or formats
    pExpr,          \* what the expr of the assert_ under way evaluated to, or "none"
    pArgs,          \* the (file, line, msg) of the call of megaton_format_panic_message
    PANIC_FMT_BUFFER, \* the static buffer, a sequence of characters
    fmtRet,         \* what megaton_format_panic_message returned last
    fmtCalls,       \* number of calls of megaton_format_panic_message
    panicArg,       \* the string megaton_panic received
    afterRuns       \* number of statements run after an assert_

socVars == <<hwConfig, socPc, hwtype, smcRc, s_SocType, socWrites, initCalls,
             initDone, lastIsErista, lastIsMariko>>

handleVars == <<s_Handle, mainPc, getRet, workerPc, openHandles, reqPending,
                workerTls3, svcCalls, svcFailed, closeCalls, getCalls, getReturns,
                acqRuns, ipcRuns, handleWrites>>

pageVars == <<layout, layoutAtMap, mirror, reservations, objState, objOwner, objClaim, cur,
              alignedRw, procHandle, wStart, wLen, meminfo, walkKind, walkCalls,
              mapCalls, unmapCalls, cacheOps, releaseCount, flushCalls, ctorFailed,
              crashed>>

buildVars == <<JitSize, InlinePoolSize, buildResult>>

threadVars == <<tPc, tGot, tOverlap>>

fmtVars == <<pPc, pExpr, pArgs, PANIC_FMT_BUFFER, fmtRet, fmtCalls, panicArg, afterRuns>>

vars == <<panicMsg, socVars, handleVars, pageVars, buildVars, threadVars, fmtVars>>

panicked == panicMsg # ""
\* the process has stopped: megaton_panic never returns, nor does a data abort
halted == panicked \/ crashed

\* ------------------------------------------------------------------ soc.hpp
\* the SplHardwareType enumerators the switch names, and two values outside them
RecognisedHw == {"Icosa", "Copper", "Hoag", "Iowa", "Calcio", "Aula"}
HwValues == RecognisedHw \cup {"Unknown6", "Unknown7"}

\* faulty variant: Copper is listed with the Mariko boards
SocTypeOf_CopperMariko(hw) ==
    CASE hw \in {"Icosa"} -> "Erista"
      [] hw \in {"Copper", "Hoag", "Iowa", "Calcio", "Aula"} -> "Mariko"
      [] OTHER -> "unreachable"

\* faulty variant: the default case falls into the Mariko family
SocTypeOf_DefaultsToMariko(hw) ==
    CASE hw \in {"Icosa", "Copper"} -> "Erista"
      [] OTHER -> "Mariko"

\* the switch of InitSocType: the family assigned, or "unreachable" for default
SocTypeOf(hw) ==
    CASE hw \in {"Icosa", "Copper"} -> "Erista"
      [] hw \in {"Hoag", "Iowa", "Calcio", "Aula"} -> "Mariko"
      [] OTHER -> "unreachable"

IsSocErista == s_SocType = "Erista"
IsSocMariko == s_SocType = "Mariko"

InitSoc ==
    /\ hwConfig \in HwValues
    /\ socPc = "idle"
    /\ hwtype = "uninit"
    /\ smcRc = "none"
    /\ s_SocType = "Erista"      \* static storage: zero-initialised, enumerator 0
    /\ socWrites = 0
    /\ initCalls = 0
    /\ initDone = 0
    /\ lastIsErista = "none"
    /\ lastIsMariko = "none"

\* InitSocType, lines 18-19: the query and the assert_ on its result. The
\* query stores a 64-bit word through a pointer to the 32-bit hwtype
\* (reinterpret_cast<u64*>(&hwtype)): hwtype receives the low half, and the
\* high half lands in the four bytes after it, which the build makes either
\* padding (no effect) or live stack data (the run is lost: crashed).
Soc_GetConfig ==
    /\ ~halted
    /\ mainPc = "idle"
    /\ socPc = "idle"
    /\ initCalls < MaxInitCalls
    /\ initCalls' = initCalls + 1
    /\ \E rc \in {"ok", "fail"} :
        /\ smcRc' = rc
        /\ IF rc = "ok"
           THEN /\ hwtype' = hwConfig
                /\ socPc' = "switch"
                /\ panicMsg' = panicMsg
                /\ \E overrun \in BOOLEAN : crashed' = overrun
           ELSE /\ hwtype' = "uninit"
                /\ socPc' = socPc
                /\ panicMsg' = "Assertion failed: R_SUCCEEDED(smcGetConfig)"
                /\ crashed' = crashed
    /\ UNCHANGED <<hwConfig, s_SocType, socWrites, initDone, lastIsErista, lastIsMariko>>
    /\ UNCHANGED <<layout, layoutAtMap, mirror, reservations, objState, objOwner, objClaim, cur,
                   alignedRw, procHandle, wStart, wLen, meminfo, walkKind, walkCalls,
                   mapCalls, unmapCalls, cacheOps, releaseCount, flushCalls, ctorFailed>>
    /\ UNCHANGED handleVars
    /\ UNCHANGED <<buildVars, threadVars, fmtVars>>

\* InitSocType, lines 21-34: the switch
Soc_Switch ==
    /\ ~halted
    /\ mainPc = "idle"
    /\ socPc = "switch"
    /\ IF SocTypeOf(hwtype) = "unreachable"
       THEN /\ panicMsg' = "unreachable"
            /\ UNCHANGED <<s_SocType, socWrites, socPc, initDone, hwtype>>
       ELSE /\ s_SocType' = SocTypeOf(hwtype)
            /\ socWrites' = socWrites + 1
            /\ socPc' = "idle"
            /\ initDone' = initDone + 1
            /\ hwtype' = "uninit"
            /\ panicMsg' = panicMsg
    /\ UNCHANGED <<hwConfig, smcRc, initCalls, lastIsErista, lastIsMariko>>
    /\ UNCHANGED <<handleVars, pageVars>>
    /\ UNCHANGED <<buildVars, threadVars, fmtVars>>

\* a caller reads IsSocErista()
Soc_IsErista ==
    /\ ~halted
    /\ mainPc = "idle"
    /\ socPc = "idle"
    /\ lastIsErista' = (IF IsSocErista THEN "true" ELSE "false")
    /\ UNCHANGED <<panicMsg, hwConfig, socPc, hwtype, smcRc, s_SocType, socWrites,
                   initCalls, initDone, lastIsMariko>>
    /\ UNCHANGED <<handleVars, pageVars>>
    /\ UNCHANGED <<buildVars, threadVars, fmtVars>>

\* a caller reads IsSocMariko()
Soc_IsMariko ==
    /\ ~halted
    /\ mainPc = "idle"
    /\ socPc = "idle"
    /\ lastIsMariko' = (IF IsSocMariko THEN "true" ELSE "false")
    /\ UNCHANGED <<panicMsg, hwConfig, socPc, hwtype, smcRc, s_SocType, socWrites,
                   initCalls, initDone, lastIsErista>>
    /\ UNCHANGED <<handleVars, pageVars>>
    /\ UNCHANGED <<buildVars, threadVars, fmtVars>>

\* ------------------------------------------------------ cur_proc_handle.cpp
\* Handle s_Handle = INVALID_HANDLE;
INVALID_HANDLE == 0
\* the values a real handle can take
HandleValues == 1 .. NumHandles

\* the kernel operations of the fallback whose result the code tests
CheckedSvcs == {"svcCreateSession", "svcCreateThread", "svcStartThread",
                "svcReplyAndReceive", "svcWaitSynchronizationSingle"}
\* the kernel operations of the fallback
IpcSvcs == CheckedSvcs \cup {"svcSendSyncRequest", "svcCloseHandle"}
IpcHandles == {"server_handle", "client_handle", "thread_handle"}

InitHandle ==
    /\ s_Handle = INVALID_HANDLE
    /\ mainPc = "idle"
    /\ getRet = "idle"
    /\ workerPc = "none"
    /\ openHandles = {}
    /\ reqPending = FALSE
    /\ workerTls3 = 0
    /\ svcCalls = [op \in IpcSvcs |-> 0]
    /\ svcFailed = {}
    /\ closeCalls = [h \in IpcHandles |-> 0]
    /\ getCalls = 0
    /\ getReturns = <<>>
    /\ acqRuns = 0
    /\ ipcRuns = 0
    /\ handleWrites = 0

\* one kernel call: count it, and note a failure
SvcDone(op, rc) ==
    /\ svcCalls' = [svcCalls EXCEPT ![op] = @ + 1]
    /\ svcFailed' = IF rc = "fail" THEN svcFailed \cup {op} ELSE svcFailed

\* the program calls proc_handle::Get()
Main_CallGet ==
    /\ ~halted
    /\ mainPc = "idle"
    /\ socPc = "idle"
    /\ getCalls < MaxGetCalls
    /\ getCalls' = getCalls + 1
    /\ mainPc' = "get_check"
    /\ getRet' = "idle"
    /\ UNCHANGED <<panicMsg, s_Handle, workerPc, openHandles, reqPending, workerTls3,
                   svcCalls, svcFailed, closeCalls, getReturns, acqRuns, ipcRuns,
                   handleWrites>>
    /\ UNCHANGED <<socVars, pageVars>>
    /\ UNCHANGED <<buildVars, threadVars, fmtVars>>

\* faulty variant: the cache is not consulted
GetNeedsAcquire_Always == TRUE

\* faulty variant: Get() never acquires
GetNeedsAcquire_Never == FALSE

\* Get, line 94: if(s_Handle == INVALID_HANDLE)
GetNeedsAcquire == s_Handle = INVALID_HANDLE

Get_Check ==
    /\ ~halted
    /\ mainPc = "get_check"
    /\ mainPc' = IF GetNeedsAcquire THEN "get_meso" ELSE "get_return"
    /\ UNCHANGED <<panicMsg, s_Handle, getRet, workerPc, openHandles, reqPending,
                   workerTls3, svcCalls, svcFailed, closeCalls, getCalls, getReturns,
                   acqRuns, ipcRuns, handleWrites>>
    /\ UNCHANGED <<socVars, pageVars>>
    /\ UNCHANGED <<buildVars, threadVars, fmtVars>>

\* faulty variant: the fallback is run whatever the fast path returned
NeedsFallback_Always(r) == TRUE

\* Get, line 99: if(R_FAILED(r))
NeedsFallback(r) == r = "fail"

\* Get, lines 96-100 with GetViaMesosphere, lines 84-90: the fast path; R_TRY
\* returns the failure without writing s_Handle, and Get then falls back
Get_Mesosphere ==
    /\ ~halted
    /\ mainPc = "get_meso"
    /\ acqRuns' = acqRuns + 1
    /\ \E r \in {"ok", "fail"} :
        /\ IF r = "ok"
           THEN /\ \E h \in HandleValues : s_Handle' = h
                /\ handleWrites' = handleWrites + 1
           ELSE UNCHANGED <<s_Handle, handleWrites>>
        /\ IF NeedsFallback(r)
           THEN /\ mainPc' = "ipc_session"
                /\ ipcRuns' = ipcRuns + 1
           ELSE /\ mainPc' = "get_return"
                /\ ipcRuns' = ipcRuns
    /\ UNCHANGED <<panicMsg, getRet, workerPc, openHandles, reqPending, workerTls3,
                   svcCalls, svcFailed, closeCalls, getCalls, getReturns>>
    /\ UNCHANGED <<socVars, pageVars>>
    /\ UNCHANGED <<buildVars, threadVars, fmtVars>>

\* GetViaIpcTrick, lines 43-48
Ipc_CreateSession ==
    /\ ~halted
    /\ mainPc = "ipc_session"
    /\ \E rc \in {"ok", "fail"} :
        /\ SvcDone("svcCreateSession", rc)
        /\ IF rc = "ok"
           THEN /\ openHandles' = openHandles \cup {"server_handle", "client_handle"}
                /\ mainPc' = "ipc_thread"
                /\ panicMsg' = panicMsg
           ELSE /\ panicMsg' = "svcCreateSession failed."
                /\ UNCHANGED <<openHandles, mainPc>>
    /\ UNCHANGED <<s_Handle, getRet, workerPc, reqPending, workerTls3, closeCalls,
                   getCalls, getReturns, acqRuns, ipcRuns, handleWrites>>
    /\ UNCHANGED <<socVars, pageVars>>
    /\ UNCHANGED <<buildVars, threadVars, fmtVars>>

\* GetViaIpcTrick, lines 50-56
Ipc_CreateThread ==
    /\ ~halted
    /\ mainPc = "ipc_thread"
    /\ \E rc \in {"ok", "fail"} :
        /\ SvcDone("svcCreateThread", rc)
        /\ IF rc = "ok"
           THEN /\ openHandles' = openHandles \cup {"thread_handle"}
                /\ workerPc' = "created"
                /\ mainPc' = "ipc_start"
                /\ panicMsg' = panicMsg
           ELSE /\ panicMsg' = "svcCreateThread failed."
                /\ UNCHANGED <<openHandles, workerPc, mainPc>>
    /\ UNCHANGED <<s_Handle, getRet, reqPending, workerTls3, closeCalls, getCalls,
                   getReturns, acqRuns, ipcRuns, handleWrites>>
    /\ UNCHANGED <<socVars, pageVars>>
    /\ UNCHANGED <<buildVars, threadVars, fmtVars>>

\* GetViaIpcTrick, lines 58-63
Ipc_StartThread ==
    /\ ~halted
    /\ mainPc = "ipc_start"
    /\ \E rc \in {"ok", "fail"} :
        /\ SvcDone("svcStartThread", rc)
        /\ IF rc = "ok"
           THEN /\ workerPc' = "receive"
                /\ mainPc' = "ipc_send"
                /\ panicMsg' = panicMsg
           ELSE /\ panicMsg' = "svcStartThread failed."
                /\ UNCHANGED <<workerPc, mainPc>>
    /\ UNCHANGED <<s_Handle, getRet, openHandles, reqPending, workerTls3, closeCalls,
                   getCalls, getReturns, acqRuns, ipcRuns, handleWrites>>
    /\ UNCHANGED <<socVars, pageVars>>
    /\ UNCHANGED <<buildVars, threadVars, fmtVars>>

\* GetViaIpcTrick, lines 65-68: the request is queued on the session and the
\* caller blocks in svcSendSyncRequest, or the kernel refuses the request at once
Ipc_Send ==
    /\ ~halted
    /\ mainPc = "ipc_send"
    /\ \/ /\ reqPending' = TRUE
          /\ mainPc' = "ipc_send_blocked"
          /\ UNCHANGED <<svcCalls, svcFailed>>
       \/ /\ SvcDone("svcSendSyncRequest", "fail")
          /\ mainPc' = "ipc_close_client"
          /\ UNCHANGED reqPending
    /\ UNCHANGED <<panicMsg, s_Handle, getRet, workerPc, openHandles, workerTls3,
                   closeCalls, getCalls, getReturns, acqRuns, ipcRuns, handleWrites>>
    /\ UNCHANGED <<socVars, pageVars>>
    /\ UNCHANGED <<buildVars, threadVars, fmtVars>>

\* svcSendSyncRequest returns: the worker never replies, so the request ends
\* when the server side of the session is closed, with the session-closed
\* error; line 68 drops the result
Ipc_SendReturn ==
    /\ ~halted
    /\ mainPc = "ipc_send_blocked"
    /\ "server_handle" \notin openHandles
    /\ SvcDone("svcSendSyncRequest", "fail")
    /\ mainPc' = "ipc_close_client"
    /\ UNCHANGED <<panicMsg, s_Handle, getRet, workerPc, openHandles, reqPending,
                   workerTls3, closeCalls, getCalls, getReturns, acqRuns, ipcRuns,
                   handleWrites>>
    /\ UNCHANGED <<socVars, pageVars>>
    /\ UNCHANGED <<buildVars, threadVars, fmtVars>>

\* faulty variant: the thread handle is closed in place of the client handle
ClosedAfterSend_Thread == {"thread_handle"}

\* GetViaIpcTrick, line 71: svcCloseHandle(client_handle)
ClosedAfterSend == {"client_handle"}

\* faulty variant: the thread handle is closed without the wait on the thread
AfterCloseClient_NoWait == "ipc_close_thread"

\* GetViaIpcTrick, lines 73-75: after the close of the client handle comes
\* the wait on the thread
AfterCloseClient == "ipc_wait"

\* GetViaIpcTrick, line 40: temp_thread_stack is a local of GetViaIpcTrick,
\* its storage lasts from the entry of the function to its return. These are
\* the positions of the requester inside the function
IpcFramePcs == {"ipc_session", "ipc_thread", "ipc_start", "ipc_send", "ipc_send_blocked",
                "ipc_close_client", "ipc_wait", "ipc_close_thread"}

\* GetViaIpcTrick, lines 52-56: the thread was created with its stack top at
\* temp_thread_stack + sizeof(temp_thread_stack), and has not terminated
WorkerHoldsStack ==
    workerPc \in {"created", "receive", "set_handle", "close_session", "exit_thread"}

\* GetViaIpcTrick, lines 70-71; the result of svcCloseHandle is dropped
Ipc_CloseClient ==
    /\ ~halted
    /\ mainPc = "ipc_close_client"
    /\ SvcDone("svcCloseHandle", "ok")
    /\ closeCalls' = [h \in IpcHandles |->
                        IF h \in ClosedAfterSend THEN closeCalls[h] + 1
                        ELSE closeCalls[h]]
    /\ openHandles' = openHandles \ ClosedAfterSend
    /\ mainPc' = AfterCloseClient
    /\ UNCHANGED <<panicMsg, s_Handle, getRet, workerPc, reqPending, workerTls3,
                   getCalls, getReturns, acqRuns, ipcRuns, handleWrites>>
    /\ UNCHANGED <<socVars, pageVars>>
    /\ UNCHANGED <<buildVars, threadVars, fmtVars>>

\* faulty variant: the result of the wait is dropped
WaitFailed_Never(rc) == FALSE

\* GetViaIpcTrick, line 74: if (R_FAILED(svcWaitSynchronizationSingle(...)))
WaitFailed(rc) == rc = "fail"

\* faulty variant: the wait is on an object that is signalled already
WaitSatisfied_Already == TRUE

\* GetViaIpcTrick, line 75: svcWaitSynchronizationSingle(thread_handle,
\* UINT64_MAX) succeeds when the thread has terminated
WaitSatisfied == workerPc = "exited"

\* GetViaIpcTrick, lines 73-78: returns once the worker thread has exited, or
\* fails
Ipc_Wait ==
    /\ ~halted
    /\ mainPc = "ipc_wait"
    /\ \E rc \in {"ok", "fail"} :
        /\ rc = "ok" => WaitSatisfied
        /\ SvcDone("svcWaitSynchronizationSingle", rc)
        /\ IF WaitFailed(rc)
           THEN /\ panicMsg' = "svcWaitSynchronizationSingle failed."
                /\ UNCHANGED mainPc
           ELSE /\ mainPc' = "ipc_close_thread"
                /\ panicMsg' = panicMsg
    /\ UNCHANGED <<s_Handle, getRet, workerPc, openHandles, reqPending, workerTls3,
                   closeCalls, getCalls, getReturns, acqRuns, ipcRuns, handleWrites>>
    /\ UNCHANGED <<socVars, pageVars>>
    /\ UNCHANGED <<buildVars, threadVars, fmtVars>>

\* GetViaIpcTrick, lines 80-82
Ipc_CloseThread ==
    /\ ~halted
    /\ mainPc = "ipc_close_thread"
    /\ SvcDone("svcCloseHandle", "ok")
    /\ closeCalls' = [closeCalls EXCEPT !["thread_handle"] = @ + 1]
    /\ openHandles' = openHandles \ {"thread_handle"}
    /\ mainPc' = "get_return"
    /\ UNCHANGED <<panicMsg, s_Handle, getRet, workerPc, reqPending, workerTls3,
                   getCalls, getReturns, acqRuns, ipcRuns, handleWrites>>
    /\ UNCHANGED <<socVars, pageVars>>
    /\ UNCHANGED <<buildVars, threadVars, fmtVars>>

\* Get, line 102: return s_Handle
Get_Return ==
    /\ ~halted
    /\ mainPc = "get_return"
    /\ getReturns' = Append(getReturns, s_Handle)
    /\ mainPc' = getRet
    /\ UNCHANGED <<panicMsg, s_Handle, getRet, workerPc, openHandles, reqPending,
                   workerTls3, svcCalls, svcFailed, closeCalls, getCalls, acqRuns,
                   ipcRuns, handleWrites>>
    /\ UNCHANGED <<socVars, pageVars>>
    /\ UNCHANGED <<buildVars, threadVars, fmtVars>>

\* ReceiveProcessHandleThreadMain, lines 17-24: svcReplyAndReceive returns with
\* the queued request, the kernel having put a handle of the sending process
\* into word 3; it fails when the client side is closed with nothing queued,
\* or for a reason of the kernel's own
W_ReplyAndReceive ==
    /\ ~halted
    /\ workerPc = "receive"
    /\ \E rc \in {"ok", "fail"} :
        /\ rc = "ok" => reqPending
        /\ SvcDone("svcReplyAndReceive", rc)
        /\ IF rc = "ok"
           THEN /\ \E h \in HandleValues : workerTls3' = h
                /\ reqPending' = FALSE
                /\ workerPc' = "set_handle"
                /\ panicMsg' = panicMsg
           ELSE /\ panicMsg' = "svcReplyAndReceive failed."
                /\ UNCHANGED <<workerTls3, reqPending, workerPc>>
    /\ UNCHANGED <<s_Handle, mainPc, getRet, openHandles, closeCalls, getCalls,
                   getReturns, acqRuns, ipcRuns, handleWrites>>
    /\ UNCHANGED <<socVars, pageVars>>
    /\ UNCHANGED <<buildVars, threadVars, fmtVars>>

\* ReceiveProcessHandleThreadMain, lines 26-27
W_SetHandle ==
    /\ ~halted
    /\ workerPc = "set_handle"
    /\ s_Handle' = workerTls3
    /\ handleWrites' = handleWrites + 1
    /\ workerPc' = "close_session"
    /\ UNCHANGED <<panicMsg, mainPc, getRet, openHandles, reqPending, workerTls3,
                   svcCalls, svcFailed, closeCalls, getCalls, getReturns, acqRuns,
                   ipcRuns>>
    /\ UNCHANGED <<socVars, pageVars>>
    /\ UNCHANGED <<buildVars, threadVars, fmtVars>>

\* faulty variant: the worker leaves its session handle open
ClosedByWorker_Nothing == {}

\* ReceiveProcessHandleThreadMain, line 30: svcCloseHandle(session_handle)
ClosedByWorker == {"server_handle"}

\* ReceiveProcessHandleThreadMain, lines 29-30
W_CloseSession ==
    /\ ~halted
    /\ workerPc = "close_session"
    /\ SvcDone("svcCloseHandle", "ok")
    /\ closeCalls' = [closeCalls EXCEPT !["server_handle"] = @ + 1]
    /\ openHandles' = openHandles \ ClosedByWorker
    /\ workerPc' = "exit_thread"
    /\ UNCHANGED <<panicMsg, s_Handle, mainPc, getRet, reqPending, workerTls3,
                   getCalls, getReturns, acqRuns, ipcRuns, handleWrites>>
    /\ UNCHANGED <<socVars, pageVars>>
    /\ UNCHANGED <<buildVars, threadVars, fmtVars>>

\* ReceiveProcessHandleThreadMain, lines 32-33
W_ExitThread ==
    /\ ~halted
    /\ workerPc = "exit_thread"
    /\ workerPc' = "exited"
    /\ UNCHANGED <<panicMsg, s_Handle, mainPc, getRet, openHandles, reqPending,
                   workerTls3, svcCalls, svcFailed, closeCalls, getCalls, getReturns,
                   acqRuns, ipcRuns, handleWrites>>
    /\ UNCHANGED <<socVars, pageVars>>
    /\ UNCHANGED <<buildVars, threadVars, fmtVars>>

\* ------------------------------------------------------------- rw_pages.cpp
NumPages == AddrSpace \div PAGE_SIZE
Pages == 0 .. (NumPages - 1)
PageOf(a) == a \div PAGE_SIZE
\* a page of the mirror range that maps nothing
NoPage == -1
\* what a read of an unmapped address yields (a data abort)
Fault == -1

\* the read-execute code region of the process: CodePagesN pages from CodeBase
CodeBase == 2 * PAGE_SIZE
CodeEnd == CodeBase + CodePagesN * PAGE_SIZE
CodePageSet == PageOf(CodeBase) .. (PageOf(CodeEnd) - 1)
\* the free virtual range virtmemFindAslr picks from
MirrorArea == CodeEnd + 2 * PAGE_SIZE

\* the block starts svcQueryMemory may report: the region in one block, in
\* blocks of 0x2000, 0x1000 and the rest, and one block per page
Layouts ==
    { {0, CodeBase, CodeEnd},
      {0, CodeBase, CodeBase + 2 * PAGE_SIZE, CodeBase + 3 * PAGE_SIZE, CodeEnd},
      {0, CodeEnd} \cup {p * PAGE_SIZE : p \in CodePageSet} }

\* the (ro, size) arguments the program constructs RwPages with
RoInputs == {CodeBase, CodeBase + PAGE_SIZE + (PAGE_SIZE - 1)}
SizeInputs == {0, 1, PAGE_SIZE + 1, 3 * PAGE_SIZE, AddrSpace - PAGE_SIZE,
               AddrSpace - 1}

SetMin(S) == CHOOSE x \in S : \A y \in S : x <= y
SetMax(S) == CHOOSE x \in S : \A y \in S : x >= y
Min2(a, b) == IF a < b THEN a ELSE b
Max2(a, b) == IF a > b THEN a ELSE b

\* svcQueryMemory(&meminfo, &pageinfo, q): the block of the layout holding q
QueryMemory(q) ==
    LET lo == SetMax({b \in layout : b <= q})
        hi == SetMin({b \in layout : b > q} \cup {AddrSpace})
    IN [addr |-> lo, size |-> hi - lo]

\* byte at offset off of the physical page backing code page sp
Content(sp, off) == (sp * 7 + off) % 256

\* a load from virtual address a
Read(a) ==
    IF PageOf(a) \in CodePageSet THEN Content(PageOf(a), a % PAGE_SIZE)
    ELSE IF mirror[PageOf(a)] # NoPage THEN Content(mirror[PageOf(a)], a % PAGE_SIZE)
    ELSE Fault

\* the offsets below n at which p + k or q + k enters a page, and 0. Between
\* two of them both addresses stay in one page each, where Content moves in
\* step with the offset: the bytes at p + k and q + k agree, differ or fault
\* there as they do at the first k
ChunkStarts(p, q, n) ==
    {k \in {0} \cup {j * PAGE_SIZE - (p % PAGE_SIZE) : j \in 1 .. NumPages}
             \cup {j * PAGE_SIZE - (q % PAGE_SIZE) : j \in 1 .. NumPages} : k < n}

\* memcmp(p, q, n): "equal", "differ", or "fault" when a byte it gets to is
\* not mapped
Memcmp(p, q, n) ==
    LET bad == {k \in ChunkStarts(p, q, n) :
                    \/ Read(Word(p + k)) = Fault
                    \/ Read(Word(q + k)) = Fault
                    \/ Read(Word(p + k)) # Read(Word(q + k))}
    IN IF bad = {} THEN "equal"
       ELSE LET k0 == SetMin(bad)
            IN IF Read(Word(p + k0)) = Fault \/ Read(Word(q + k0)) = Fault
               THEN "fault" ELSE "differ"

\* Claim::GetAlignedRo / GetAlignedRw / GetAlignedSize
GetAlignedRo(c) == ALIGN_DOWN(c.m_Ro, PAGE_SIZE)
GetAlignedRw(c) == ALIGN_DOWN(c.m_Rw, PAGE_SIZE)
GetAlignedSize(c) == ALIGN_UP(Word(c.m_Size + Word(c.m_Ro - GetAlignedRo(c))), PAGE_SIZE)

NullClaim == [m_Ro |-> 0, m_Size |-> 0, m_Rw |-> 0, m_RwReserve |-> 0]
ObjIds == 0 .. MaxCopies

\* the kernel accepts svcMapProcessMemory(rw, h, ro, size): a real handle,
\* page-aligned non-empty ranges, the source mapped, the destination free
CanMap(rw, h, ro, size) ==
    /\ h \in HandleValues
    /\ size > 0
    /\ rw % PAGE_SIZE = 0 /\ ro % PAGE_SIZE = 0 /\ size % PAGE_SIZE = 0
    /\ ro + size <= AddrSpace /\ rw + size <= AddrSpace
    /\ \A p \in PageOf(ro) .. (PageOf(ro + size) - 1) : p \in CodePageSet
    /\ \A p \in PageOf(rw) .. (PageOf(rw + size) - 1) :
            p \notin CodePageSet /\ mirror[p] = NoPage

\* the kernel accepts svcUnmapProcessMemory(rw, h, ro, size): the range at rw
\* is at present the mapping of the range at ro
CanUnmap(rw, h, ro, size) ==
    /\ h \in HandleValues
    /\ size > 0
    /\ rw % PAGE_SIZE = 0 /\ ro % PAGE_SIZE = 0 /\ size % PAGE_SIZE = 0
    /\ ro + size <= AddrSpace /\ rw + size <= AddrSpace
    /\ \A i \in 0 .. (PageOf(size) - 1) :
            /\ PageOf(ro) + i \in CodePageSet
            /\ mirror[PageOf(rw) + i] = PageOf(ro) + i

\* the code page after sp: what a corrupted mapping shows in place of sp
WrongPage(sp) == IF sp + 1 \in CodePageSet THEN sp + 1 ELSE PageOf(CodeBase)

InitPages ==
    /\ layout \in Layouts
    /\ layoutAtMap = layout
    /\ mirror = [p \in Pages |-> NoPage]
    /\ reservations = {}
    /\ objState = [i \in ObjIds |-> "none"]
    /\ objOwner = [i \in ObjIds |-> FALSE]
    /\ objClaim = [i \in ObjIds |-> NullClaim]
    /\ cur = 0
    /\ alignedRw = 0
    /\ procHandle = INVALID_HANDLE
    /\ wStart = 0
    /\ wLen = 0
    /\ meminfo = [addr |-> 0, size |-> 0]
    /\ walkKind = "none"
    /\ walkCalls = <<>>
    /\ mapCalls = <<>>
    /\ unmapCalls = <<>>
    /\ cacheOps = <<>>
    /\ releaseCount = 0
    /\ flushCalls = 0
    /\ ctorFailed = {}
    /\ crashed = FALSE

\* virtmemFindAslr(size, 0): NULL, or the base of a free range of that size
MirrorBases == {MirrorArea, MirrorArea + PAGE_SIZE}
FindAslrResults(size) ==
    {0} \cup {b \in MirrorBases :
                /\ b + size <= AddrSpace
                /\ \A r \in reservations : b + size <= r.base \/ r.base + r.size <= b}

\* one step of the constructor failed
StepFailed(step) == ctorFailed' = ctorFailed \cup {step}

\* RwPages::RwPages, lines 41-53: the claim is initialised and a free range
\* is looked up
Ctor_FindAslr ==
    /\ ~halted
    /\ mainPc = "idle"
    /\ objState[0] = "none"
    /\ \E ro \in RoInputs, size \in SizeInputs :
        LET claim == [m_Ro |-> ro, m_Size |-> size, m_Rw |-> 0, m_RwReserve |-> 0]
        IN /\ objClaim' = [objClaim EXCEPT ![0] = claim]
           /\ \E a \in FindAslrResults(GetAlignedSize(claim)) :
                /\ alignedRw' = a
                /\ IF a # 0
                   THEN /\ mainPc' = "ctor_reserve"
                        /\ UNCHANGED <<panicMsg, ctorFailed>>
                   ELSE /\ panicMsg' = "Assertion failed: alignedRw != 0"
                        /\ StepFailed("virtmemFindAslr")
                        /\ UNCHANGED mainPc
    /\ objState' = [objState EXCEPT ![0] = "constructing"]
    /\ objOwner' = [objOwner EXCEPT ![0] = TRUE]
    /\ cur' = 0
    /\ UNCHANGED <<layout, layoutAtMap, mirror, reservations, procHandle, wStart, wLen, meminfo,
                   walkKind, walkCalls, mapCalls, unmapCalls, cacheOps, releaseCount,
                   flushCalls, crashed>>
    /\ UNCHANGED <<s_Handle, getRet, workerPc, openHandles, reqPending, workerTls3,
                   svcCalls, svcFailed, closeCalls, getCalls, getReturns, acqRuns,
                   ipcRuns, handleWrites>>
    /\ UNCHANGED socVars
    /\ UNCHANGED <<buildVars, threadVars, fmtVars>>

\* faulty variant: the reservation is not tested
ReserveFailed_Never(rc) == FALSE

\* RwPages::RwPages, line 57: assert_(reserve != NULL)
ReserveFailed(rc) == rc = "null"

\* RwPages::RwPages, lines 55-60: the range is reserved, then Get() is called
Ctor_Reserve ==
    /\ ~halted
    /\ mainPc = "ctor_reserve"
    /\ \E rc \in {"ok", "null"} :
        /\ reservations' =
              IF rc = "ok"
              THEN reservations \cup
                    {[id |-> 1, base |-> alignedRw, size |-> GetAlignedSize(objClaim[0])]}
              ELSE reservations
        /\ IF ReserveFailed(rc)
           THEN /\ panicMsg' = "Assertion failed: reserve != NULL"
                /\ StepFailed("virtmemAddReservation")
                /\ UNCHANGED <<objClaim, mainPc, getRet>>
           ELSE /\ objClaim' = [objClaim EXCEPT
                                  ![0].m_RwReserve = IF rc = "ok" THEN 1 ELSE 0]
                /\ mainPc' = "get_check"
                /\ getRet' = "ctor_walk"
                /\ UNCHANGED <<panicMsg, ctorFailed>>
    /\ UNCHANGED <<layout, layoutAtMap, mirror, objState, objOwner, cur, alignedRw, procHandle,
                   wStart, wLen, meminfo, walkKind, walkCalls, mapCalls, unmapCalls,
                   cacheOps, releaseCount, flushCalls, crashed>>
    /\ UNCHANGED <<s_Handle, workerPc, openHandles, reqPending, workerTls3,
                   svcCalls, svcFailed, closeCalls, getCalls, getReturns, acqRuns,
                   ipcRuns, handleWrites>>
    /\ UNCHANGED socVars
    /\ UNCHANGED <<buildVars, threadVars, fmtVars>>

\* faulty variant: a while loop, the condition of line 38 tested before the
\* first iteration
WalkEnters_TestFirst(start, length) == start < Word(start + length)

\* ForEachMemRange, lines 21 and 38: do { ... } while (...), the body runs
\* once before the condition is tested
WalkEnters(start, length) == TRUE

\* RwPages::RwPages, lines 60-63 and 73: Get() has returned; the walk over
\* [GetAlignedRo, GetAlignedRo + GetAlignedSize) starts (ForEachMemRange,
\* lines 14-19)
Ctor_WalkBegin ==
    /\ ~halted
    /\ mainPc = "ctor_walk"
    /\ procHandle' = getReturns[Len(getReturns)]
    /\ wStart' = GetAlignedRo(objClaim[0])
    /\ wLen' = GetAlignedSize(objClaim[0])
    /\ meminfo' = [addr |-> GetAlignedRo(objClaim[0]), size |-> 0]
    /\ walkKind' = "map"
    /\ layoutAtMap' = layout
    /\ walkCalls' = <<>>
    /\ mainPc' = IF WalkEnters(GetAlignedRo(objClaim[0]), GetAlignedSize(objClaim[0]))
                  THEN "walk" ELSE "ctor_setrw"
    /\ UNCHANGED <<panicMsg, layout, mirror, reservations, objState, objOwner, objClaim,
                   cur, alignedRw, mapCalls, unmapCalls, cacheOps, releaseCount,
                   flushCalls, crashed, ctorFailed>>
    /\ UNCHANGED <<s_Handle, getRet, workerPc, openHandles, reqPending, workerTls3,
                   svcCalls, svcFailed, closeCalls, getCalls, getReturns, acqRuns,
                   ipcRuns, handleWrites>>
    /\ UNCHANGED socVars
    /\ UNCHANGED <<buildVars, threadVars, fmtVars>>

\* ForEachMemRange, line 14
WalkEnd == Word(wStart + wLen)
\* faulty variant: every query is made at the start of the range
WalkQuery_AtStart(mi) == wStart

\* ForEachMemRange, line 23: the address the next query is made at
WalkQuery(mi) == Word(mi.addr + mi.size)
\* ForEachMemRange, line 28
WalkOffset(mi) == Word(Max2(mi.addr, wStart) - wStart)
\* ForEachMemRange, line 30
WalkAddress(mi) == Word(wStart + WalkOffset(mi))
\* faulty variant: the whole block is taken, not its part within the range
WalkLength_WholeBlock(mi) == mi.size

\* ForEachMemRange, line 32
WalkLength(mi) == Word(Min2(WalkEnd, Word(mi.addr + mi.size)) - WalkAddress(mi))
\* ForEachMemRange, line 38: while((meminfo.addr + meminfo.size) < end)
WalkContinues(mi) == Word(mi.addr + mi.size) < WalkEnd

\* faulty variant: the destructor adds the offset to the stored rw pointer
CallbackRw_FromRw(offset) ==
    IF walkKind = "map" THEN Word(alignedRw + offset)
    ELSE Word(objClaim[cur].m_Rw + offset)

\* the mirror address the callback works on: alignedRw + offset in the
\* constructor (line 65), claim.GetAlignedRw() + offset in the destructor
\* (line 103)
CallbackRw(offset) ==
    IF walkKind = "map" THEN Word(alignedRw + offset)
    ELSE Word(GetAlignedRw(objClaim[cur]) + offset)

\* faulty variant: the result of the map call is dropped
MapFailed_Never(rc) == FALSE

\* RwPages::RwPages, line 68: if (R_FAILED(svcMapProcessMemory(...)))
MapFailed(rc) == rc = "fail"
\* faulty variant: the result of the unmap call is dropped
UnmapFailed_Never(rc) == FALSE

\* RwPages::~RwPages, line 106: if (R_FAILED(svcUnmapProcessMemory(...)))
UnmapFailed(rc) == rc = "fail"

\* where the walk returns to
WalkReturn == IF walkKind = "map" THEN "ctor_setrw" ELSE "dtor_release"

\* ForEachMemRange, lines 21-38: one iteration of the do-while, with the
\* callback of the constructor (lines 64-72) or of the destructor (lines
\* 102-110)
Walk_Step ==
    /\ ~halted
    /\ mainPc = "walk"
    /\ \E qrc \in {"ok", "fail"} :
        IF qrc = "fail"
        THEN /\ panicMsg' = "svcQueryMemory failed."
             /\ ctorFailed' = IF walkKind = "map" THEN ctorFailed \cup {"svcQueryMemory"}
                              ELSE ctorFailed
             /\ UNCHANGED <<meminfo, walkCalls, mapCalls, unmapCalls, mirror, mainPc>>
        ELSE LET mi == QueryMemory(WalkQuery(meminfo))
                 offset == WalkOffset(mi)
                 address == WalkAddress(mi)
                 length == WalkLength(mi)
                 rw == CallbackRw(offset)
                 first == PageOf(rw)
                 touched == first .. (first + PageOf(length) - 1)
             IN /\ meminfo' = mi
                /\ walkCalls' = Append(walkCalls,
                        [address |-> address, length |-> length, offset |-> offset])
                /\ IF walkKind = "map"
                   THEN \E rc \in {"fail"} \cup
                                  (IF CanMap(rw, procHandle, address, length)
                                   THEN {"ok", "wrong"} ELSE {}) :
                        /\ mapCalls' = Append(mapCalls,
                                [rw |-> rw, ro |-> address, size |-> length,
                                 offset |-> offset, rc |-> rc])
                        /\ unmapCalls' = unmapCalls
                        /\ ctorFailed' = IF rc = "fail"
                                         THEN ctorFailed \cup {"svcMapProcessMemory"}
                                         ELSE ctorFailed
                        /\ mirror' = [p \in Pages |->
                                IF p \in touched /\ rc = "ok"
                                THEN PageOf(address) + (p - first)
                                ELSE IF p \in touched /\ rc = "wrong"
                                THEN WrongPage(PageOf(address) + (p - first))
                                ELSE mirror[p]]
                        /\ IF MapFailed(rc)
                           THEN /\ panicMsg' = "svcMapProcessMemory failed."
                                /\ UNCHANGED mainPc
                           ELSE /\ mainPc' = IF WalkContinues(mi) THEN "walk" ELSE WalkReturn
                                /\ UNCHANGED panicMsg
                   ELSE \E rc \in {"fail"} \cup
                                  (IF CanUnmap(rw, procHandle, address, length)
                                   THEN {"ok"} ELSE {}) :
                        /\ unmapCalls' = Append(unmapCalls,
                                [rw |-> rw, ro |-> address, size |-> length,
                                 offset |-> offset, rc |-> rc, by |-> cur])
                        /\ mapCalls' = mapCalls
                        /\ ctorFailed' = ctorFailed
                        /\ mirror' = [p \in Pages |->
                                IF p \in touched /\ rc = "ok" THEN NoPage ELSE mirror[p]]
                        /\ IF UnmapFailed(rc)
                           THEN /\ panicMsg' = "svcUnmapProcessMemory failed."
                                /\ UNCHANGED mainPc
                           ELSE /\ mainPc' = IF WalkContinues(mi) THEN "walk" ELSE WalkReturn
                                /\ UNCHANGED panicMsg
    /\ UNCHANGED <<layout, layoutAtMap, reservations, objState, objOwner, objClaim, cur, alignedRw,
                   procHandle, wStart, wLen, walkKind, cacheOps, releaseCount,
                   flushCalls, crashed>>
    /\ UNCHANGED <<s_Handle, getRet, workerPc, openHandles, reqPending, workerTls3,
                   svcCalls, svcFailed, closeCalls, getCalls, getReturns, acqRuns,
                   ipcRuns, handleWrites>>
    /\ UNCHANGED socVars
    /\ UNCHANGED <<buildVars, threadVars, fmtVars>>

\* faulty variant: the offset of ro within its page is not added
CtorRw_PageBase(c) == alignedRw

\* RwPages::RwPages, line 76: the rw pointer
CtorRw(c) == Word(alignedRw + Word(c.m_Ro - GetAlignedRo(c)))

\* faulty variant: the comparison is not made
CtorCheck_Skipped(c) == "equal"

\* RwPages::RwPages, line 79: the comparison the assert_ tests
CtorCheck(c) == Memcmp(c.m_Ro, c.m_Rw, c.m_Size)

\* RwPages::RwPages, lines 75-76: the rw pointer is set
Ctor_SetRw ==
    /\ ~halted
    /\ mainPc = "ctor_setrw"
    /\ objClaim' = [objClaim EXCEPT ![0].m_Rw = CtorRw(objClaim[0])]
    /\ mainPc' = "ctor_finish"
    /\ UNCHANGED <<panicMsg, layout, layoutAtMap, mirror, reservations, objState, objOwner, cur,
                   alignedRw, procHandle, wStart, wLen, meminfo, walkKind, walkCalls,
                   mapCalls, unmapCalls, cacheOps, releaseCount, flushCalls,
                   ctorFailed, crashed>>
    /\ UNCHANGED <<s_Handle, getRet, workerPc, openHandles, reqPending, workerTls3,
                   svcCalls, svcFailed, closeCalls, getCalls, getReturns, acqRuns,
                   ipcRuns, handleWrites>>
    /\ UNCHANGED socVars
    /\ UNCHANGED <<buildVars, threadVars, fmtVars>>

\* RwPages::RwPages, lines 78-80: the two views are compared, and the
\* constructor returns
Ctor_Finish ==
    /\ ~halted
    /\ mainPc = "ctor_finish"
    /\ LET res == CtorCheck(objClaim[0])
       IN /\ objClaim' = objClaim
          /\ IF res = "equal"
             THEN /\ objState' = [objState EXCEPT ![0] = "live"]
                  /\ mainPc' = "idle"
                  /\ UNCHANGED <<panicMsg, crashed, ctorFailed>>
             ELSE IF res = "differ"
             THEN /\ panicMsg' = "Assertion failed: memcmp((void*)claim.m_Ro, (void*)claim.m_Rw, size) == 0"
                  /\ StepFailed("memcmp")
                  /\ UNCHANGED <<objState, mainPc, crashed>>
             ELSE /\ crashed' = TRUE
                  /\ UNCHANGED <<panicMsg, objState, mainPc, ctorFailed>>
    /\ UNCHANGED <<layout, layoutAtMap, mirror, reservations, objOwner, cur, alignedRw, procHandle,
                   wStart, wLen, meminfo, walkKind, walkCalls, mapCalls, unmapCalls,
                   cacheOps, releaseCount, flushCalls>>
    /\ UNCHANGED <<s_Handle, getRet, workerPc, openHandles, reqPending, workerTls3,
                   svcCalls, svcFailed, closeCalls, getCalls, getReturns, acqRuns,
                   ipcRuns, handleWrites>>
    /\ UNCHANGED socVars
    /\ UNCHANGED <<buildVars, threadVars, fmtVars>>

\* faulty variant: the cache maintenance of the destructor, over the
\* unaligned views
FlushOps_Unaligned(c) ==
    << [op |-> "armDCacheFlush", addr |-> c.m_Rw, size |-> c.m_Size],
       [op |-> "armICacheInvalidate", addr |-> c.m_Ro, size |-> c.m_Size] >>

\* RwPages::Flush, lines 84-85: the two cache maintenance calls
FlushOps(c) ==
    << [op |-> "armDCacheFlush", addr |-> GetAlignedRw(c), size |-> GetAlignedSize(c)],
       [op |-> "armICacheInvalidate", addr |-> GetAlignedRw(c),
        size |-> GetAlignedSize(c)] >>

\* RwPages::Flush, lines 82-86
Flush ==
    /\ ~halted
    /\ mainPc = "idle"
    /\ objState[0] = "live"
    /\ flushCalls < MaxFlushCalls
    /\ flushCalls' = flushCalls + 1
    /\ \E i \in ObjIds :
        /\ objState[i] = "live"
        /\ cacheOps' = cacheOps \o FlushOps(objClaim[i])
    /\ UNCHANGED <<panicMsg, layout, layoutAtMap, mirror, reservations, objState, objOwner, objClaim,
                   cur, alignedRw, procHandle, wStart, wLen, meminfo, walkKind,
                   walkCalls, mapCalls, unmapCalls, releaseCount, crashed, ctorFailed>>
    /\ UNCHANGED handleVars
    /\ UNCHANGED socVars
    /\ UNCHANGED <<buildVars, threadVars, fmtVars>>

\* a non-owning copy of the constructed object is made
Copy ==
    /\ ~halted
    /\ mainPc = "idle"
    /\ objState[0] = "live"
    /\ \E i \in ObjIds \ {0} :
        /\ objState[i] = "none"
        /\ \A j \in 1 .. (i - 1) : objState[j] # "none"
        /\ objState' = [objState EXCEPT ![i] = "live"]
        /\ objOwner' = [objOwner EXCEPT ![i] = FALSE]
        /\ objClaim' = [objClaim EXCEPT ![i] = objClaim[0]]
    /\ UNCHANGED <<panicMsg, layout, layoutAtMap, mirror, reservations, cur, alignedRw, procHandle,
                   wStart, wLen, meminfo, walkKind, walkCalls, mapCalls, unmapCalls,
                   cacheOps, releaseCount, flushCalls, crashed, ctorFailed>>
    /\ UNCHANGED handleVars
    /\ UNCHANGED socVars
    /\ UNCHANGED <<buildVars, threadVars, fmtVars>>

\* faulty variant: every object tears the mirror down
DtorSkips_Never(i) == FALSE

\* RwPages::~RwPages, line 90: if(!m_Owner) return;
DtorSkips(i) == ~objOwner[i]

\* RwPages::~RwPages, lines 88-98: a live object is destroyed; a non-owner
\* returns at once, the owner flushes and calls Get()
Dtor_Begin ==
    /\ ~halted
    /\ mainPc = "idle"
    /\ \E i \in ObjIds :
        /\ objState[i] = "live"
        /\ IF DtorSkips(i)
           THEN /\ objState' = [objState EXCEPT ![i] = "destroyed"]
                /\ UNCHANGED <<cacheOps, cur, mainPc, getRet>>
           ELSE /\ objState' = [objState EXCEPT ![i] = "destroying"]
                /\ cur' = i
                /\ cacheOps' = cacheOps \o
                    << [op |-> "armDCacheFlush", addr |-> objClaim[i].m_Rw,
                        size |-> objClaim[i].m_Size],
                       [op |-> "armICacheInvalidate", addr |-> objClaim[i].m_Ro,
                        size |-> objClaim[i].m_Size] >>
                /\ mainPc' = "get_check"
                /\ getRet' = "dtor_walk"
    /\ UNCHANGED <<panicMsg, layout, layoutAtMap, mirror, reservations, objOwner, objClaim, alignedRw,
                   procHandle, wStart, wLen, meminfo, walkKind, walkCalls, mapCalls,
                   unmapCalls, releaseCount, flushCalls, crashed, ctorFailed>>
    /\ UNCHANGED <<s_Handle, workerPc, openHandles, reqPending, workerTls3,
                   svcCalls, svcFailed, closeCalls, getCalls, getReturns, acqRuns,
                   ipcRuns, handleWrites>>
    /\ UNCHANGED socVars
    /\ UNCHANGED <<buildVars, threadVars, fmtVars>>

\* RwPages::~RwPages, lines 98-101 and 111: Get() has returned; the walk
\* over the read-execute range starts again
Dtor_WalkBegin ==
    /\ ~halted
    /\ mainPc = "dtor_walk"
    /\ procHandle' = getReturns[Len(getReturns)]
    /\ wStart' = GetAlignedRo(objClaim[cur])
    /\ wLen' = GetAlignedSize(objClaim[cur])
    /\ meminfo' = [addr |-> GetAlignedRo(objClaim[cur]), size |-> 0]
    /\ walkKind' = "unmap"
    /\ walkCalls' = <<>>
    /\ mainPc' = IF WalkEnters(GetAlignedRo(objClaim[cur]), GetAlignedSize(objClaim[cur]))
                  THEN "walk" ELSE "dtor_release"
    /\ UNCHANGED <<panicMsg, layout, layoutAtMap, mirror, reservations, objState, objOwner, objClaim,
                   cur, alignedRw, mapCalls, unmapCalls, cacheOps, releaseCount,
                   flushCalls, crashed, ctorFailed>>
    /\ UNCHANGED <<s_Handle, getRet, workerPc, openHandles, reqPending, workerTls3,
                   svcCalls, svcFailed, closeCalls, getCalls, getReturns, acqRuns,
                   ipcRuns, handleWrites>>
    /\ UNCHANGED socVars
    /\ UNCHANGED <<buildVars, threadVars, fmtVars>>

\* RwPages::~RwPages, lines 113-115: virtmemRemoveReservation
Dtor_Release ==
    /\ ~halted
    /\ mainPc = "dtor_release"
    /\ reservations' = {r \in reservations : r.id # objClaim[cur].m_RwReserve}
    /\ releaseCount' = releaseCount + 1
    /\ objState' = [objState EXCEPT ![cur] = "destroyed"]
    /\ mainPc' = "idle"
    /\ UNCHANGED <<panicMsg, layout, layoutAtMap, mirror, objOwner, objClaim, cur, alignedRw,
                   procHandle, wStart, wLen, meminfo, walkKind, walkCalls, mapCalls,
                   unmapCalls, cacheOps, flushCalls, crashed, ctorFailed>>
    /\ UNCHANGED <<s_Handle, getRet, workerPc, openHandles, reqPending, workerTls3,
                   svcCalls, svcFailed, closeCalls, getCalls, getReturns, acqRuns,
                   ipcRuns, handleWrites>>
    /\ UNCHANGED socVars
    /\ UNCHANGED <<buildVars, threadVars, fmtVars>>

\* svcQueryMemory, line 23, reports what the kernel holds at the time of the
\* call: between the construction and the teardown of the object the blocks
\* of the address space may be split or merged
Relayout ==
    /\ ~halted
    /\ mainPc = "idle"
    /\ objState[0] = "live"
    /\ \E L \in Layouts \ {layout} : layout' = L
    /\ UNCHANGED <<panicMsg, layoutAtMap, mirror, reservations, objState, objOwner,
                   objClaim, cur, alignedRw, procHandle, wStart, wLen, meminfo,
                   walkKind, walkCalls, mapCalls, unmapCalls, cacheOps, releaseCount,
                   flushCalls, crashed, ctorFailed>>
    /\ UNCHANGED handleVars
    /\ UNCHANGED socVars
    /\ UNCHANGED <<buildVars, threadVars, fmtVars>>

\* the steps of the thread that called Get()
RequesterSteps ==
    \/ Get_Check
    \/ Get_Mesosphere
    \/ Ipc_CreateSession
    \/ Ipc_CreateThread
    \/ Ipc_StartThread
    \/ Ipc_Send
    \/ Ipc_SendReturn
    \/ Ipc_CloseClient
    \/ Ipc_Wait
    \/ Ipc_CloseThread
    \/ Get_Return

\* the steps of the thread that runs ReceiveProcessHandleThreadMain
WorkerSteps ==
    \/ W_ReplyAndReceive
    \/ W_SetHandle
    \/ W_CloseSession
    \/ W_ExitThread

\* the steps of Get() and of the fallback's two threads
GetSteps ==
    \/ Get_Check
    \/ Get_Mesosphere
    \/ Ipc_CreateSession
    \/ Ipc_CreateThread
    \/ Ipc_StartThread
    \/ Ipc_Send
    \/ Ipc_SendReturn
    \/ Ipc_CloseClient
    \/ Ipc_Wait
    \/ Ipc_CloseThread
    \/ Get_Return
    \/ W_ReplyAndReceive
    \/ W_SetHandle
    \/ W_CloseSession
    \/ W_ExitThread

\* --------------------------------------------------------- usersetting.hpp
\* #define EXL_JIT_SIZE 0x1000 and #define EXL_INLINE_POOL_SIZE 0x1000, the
\* sizes of a build that defines neither
EXL_JIT_SIZE == 4096
EXL_INLINE_POOL_SIZE == 4096

\* the values EXL_JIT_SIZE and EXL_INLINE_POOL_SIZE may be defined as: whole
\* pages, one byte more, one byte less than the next page
CfgSizes == {k * PAGE_SIZE + d : k \in 0 .. MaxCfgPages, d \in {0, 1, PAGE_SIZE - 1}}

\* the build of the running program: the default sizes, accepted
InitBuilt ==
    /\ JitSize = EXL_JIT_SIZE
    /\ InlinePoolSize = EXL_INLINE_POOL_SIZE
    /\ buildResult = "accepted"

\* usersetting.hpp, line 39
JitSizeAssert == ALIGN_UP(JitSize, PAGE_SIZE) = JitSize
\* usersetting.hpp, line 40
InlinePoolSizeAssert == ALIGN_UP(InlinePoolSize, PAGE_SIZE) = JitSize

\* usersetting.hpp, lines 38-40: the translation unit is compiled; a
\* static_assert that is false rejects the build
StaticAsserts ==
    /\ buildResult = "pending"
    /\ buildResult' = IF JitSizeAssert /\ InlinePoolSizeAssert
                      THEN "accepted" ELSE "rejected"
    /\ UNCHANGED <<JitSize, InlinePoolSize>>
    /\ UNCHANGED <<panicMsg, socVars, handleVars, pageVars, threadVars, fmtVars>>

\* ------------------------------------------------- assert.hpp, assert.cpp
\* a C string is a sequence of characters; the buffer holds characters and
\* NUL
NUL == ""
\* static char PANIC_FMT_BUFFER[1024]
PANIC_FMT_BUFFER_SIZE == 1024
\* u32 line: the 32 bits of the argument are kept as two halves of 16 bits,
\* the value is hi * U32HalfRange + lo
U32HalfRange == 65536
U32(hi, lo) == [hi |-> hi, lo |-> lo]

Repeat(c, n) == [k \in 1 .. n |-> c]

\* the __FILE__ values of the call sites
FileInputs ==
    { [name |-> "a.c", chars |-> <<"a", ".", "c">>],
      [name |-> "long", chars |-> Repeat("f", PANIC_FMT_BUFFER_SIZE + 6)] }

\* the line arguments
LineInputs ==
    { U32(0, 0), U32(0, 24),
      U32((U32HalfRange \div 2) - 1, U32HalfRange - 1),     \* INT_MAX
      U32(U32HalfRange \div 2, 0),                          \* INT_MAX + 1
      U32(U32HalfRange - 1, U32HalfRange - 1) }             \* UINT_MAX

\* the message arguments: empty, the message of unreachable_(), the message
\* of an assert_, and messages that fill the buffer exactly (with file a.c
\* and line 24), by one character too many and by many
MsgInputs ==
    { [name |-> "", chars |-> <<>>],
      [name |-> "unreachable", chars |-> <<"u", "n", "r", "e", "a", "c", "h", "a", "b", "l", "e">>],
      [name |-> "Assertion failed: x", chars |-> <<"A", "s", "s", "e", "r", "t", "i", "o", "n", " ", "f", "a", "i", "l", "e", "d", ":", " ", "x">>],
      [name |-> "fits", chars |-> Repeat("m", PANIC_FMT_BUFFER_SIZE - 20)],
      [name |-> "one over", chars |-> Repeat("m", PANIC_FMT_BUFFER_SIZE - 19)],
      [name |-> "far over", chars |-> Repeat("m", PANIC_FMT_BUFFER_SIZE + 76)] }

NoArgs == [file |-> [name |-> "", chars |-> <<>>], line |-> U32(0, 0),
           msg |-> [name |-> "", chars |-> <<>>]]

DigitChars == <<"0", "1", "2", "3", "4", "5", "6", "7", "8", "9">>

\* the decimal digits of n >= 0
RECURSIVE DecimalOf(_)
DecimalOf(n) ==
    IF n < 10 THEN <<DigitChars[n + 1]>>
    ELSE DecimalOf(n \div 10) \o <<DigitChars[(n % 10) + 1]>>

\* the conversion %d takes its argument as an int: the 32 bits of the u32
\* line are read as a two's complement value
ArgAsInt(line) ==
    IF line.hi >= U32HalfRange \div 2
    THEN (line.hi - U32HalfRange) * U32HalfRange + line.lo
    ELSE line.hi * U32HalfRange + line.lo

\* the conversion %d
ConvD(v) ==
    IF v < 0
    THEN LET d == (10 - (v % 10)) % 10          \* last digit of -v
             q == 0 - ((v + d) \div 10)         \* -v without its last digit
         IN <<"-">> \o (IF q = 0 THEN <<>> ELSE DecimalOf(q)) \o <<DigitChars[d + 1]>>
    ELSE DecimalOf(v)

\* the characters the format "Panic at %s:%d:\n  %s" produces
PanicFormat(file, line, msg) ==
    <<"P", "a", "n", "i", "c", " ", "a", "t", " ">> \o file \o <<":">> \o ConvD(ArgAsInt(line))
        \o <<":", "\n", " ", " ">> \o msg

\* snprintf(buf, n, ...): at most n - 1 characters and a NUL are written,
\* the rest of buf is left as it is
Snprintf(buf, n, str) ==
    LET w == Min2(Len(str), n - 1)
    IN [k \in 1 .. Len(buf) |->
            IF k <= w THEN str[k] ELSE IF k = w + 1 THEN NUL ELSE buf[k]]

\* megaton_format_panic_message, lines 6-8: the buffer after the call
FormatInto(buf, file, line, msg) ==
    [Snprintf(buf, PANIC_FMT_BUFFER_SIZE, PanicFormat(file, line, msg))
        EXCEPT ![PANIC_FMT_BUFFER_SIZE] = NUL]

\* the C string that starts at the first character of buf
CStr(buf) ==
    LET z == SetMin({k \in 1 .. Len(buf) : buf[k] = NUL} \cup {Len(buf) + 1})
    IN SubSeq(buf, 1, z - 1)

InitFmt ==
    /\ pPc = "idle"
    /\ pExpr = "none"
    /\ pArgs = NoArgs
    /\ PANIC_FMT_BUFFER = Repeat(NUL, PANIC_FMT_BUFFER_SIZE)   \* static storage
    /\ fmtRet = "none"
    /\ fmtCalls = 0
    /\ panicArg = <<>>
    /\ afterRuns = 0

FmtFrame == UNCHANGED <<socVars, handleVars, pageVars, buildVars, threadVars>>

\* assert_, line 23: if (!static_cast<bool>(expr))
AssertFails(e) == ~e

\* assert_(expr), lines 21-26, up to the call of
\* megaton_format_panic_message(__FILE__, __LINE__, "Assertion failed: " #expr)
P_Assert ==
    /\ ~halted
    /\ pPc = "idle"
    /\ afterRuns < MaxAsserts
    /\ \E e \in BOOLEAN, f \in FileInputs, l \in LineInputs, m \in MsgInputs :
        /\ pExpr' = IF e THEN "true" ELSE "false"
        /\ IF AssertFails(e)
           THEN /\ pArgs' = [file |-> f, line |-> l, msg |-> m]
                /\ pPc' = "format"
           ELSE /\ pPc' = "after"
                /\ UNCHANGED pArgs
    /\ UNCHANGED <<panicMsg, PANIC_FMT_BUFFER, fmtRet, fmtCalls, panicArg, afterRuns>>
    /\ FmtFrame

\* the statement after an assert_ that passed
P_After ==
    /\ ~halted
    /\ pPc = "after"
    /\ afterRuns' = afterRuns + 1
    /\ pPc' = "idle"
    /\ pExpr' = "none"
    /\ UNCHANGED <<panicMsg, pArgs, PANIC_FMT_BUFFER, fmtRet, fmtCalls, panicArg>>
    /\ FmtFrame

\* panic_(msg), lines 28-31, up to the call of
\* megaton_format_panic_message(__FILE__, __LINE__, msg)
P_Panic ==
    /\ ~halted
    /\ pPc = "idle"
    /\ \E f \in FileInputs, l \in LineInputs, m \in MsgInputs :
        pArgs' = [file |-> f, line |-> l, msg |-> m]
    /\ pPc' = "format"
    /\ pExpr' = "none"
    /\ UNCHANGED <<panicMsg, PANIC_FMT_BUFFER, fmtRet, fmtCalls, panicArg, afterRuns>>
    /\ FmtFrame

\* a caller other than the macros calls megaton_format_panic_message
\* (assert.hpp, line 9: the function is extern "C")
P_FormatCall ==
    /\ ~halted
    /\ pPc = "idle"
    /\ fmtCalls < MaxFormatCalls
    /\ \E f \in FileInputs, l \in LineInputs, m \in MsgInputs :
        pArgs' = [file |-> f, line |-> l, msg |-> m]
    /\ pPc' = "format_direct"
    /\ pExpr' = "none"
    /\ UNCHANGED <<panicMsg, PANIC_FMT_BUFFER, fmtRet, fmtCalls, panicArg, afterRuns>>
    /\ FmtFrame

\* megaton_format_panic_message, assert.cpp lines 5-10
P_Format ==
    /\ ~halted
    /\ pPc \in {"format", "format_direct"}
    /\ PANIC_FMT_BUFFER' = FormatInto(PANIC_FMT_BUFFER, pArgs.file.chars, pArgs.line,
                                     pArgs.msg.chars)
    /\ fmtRet' = "PANIC_FMT_BUFFER"
    /\ fmtCalls' = fmtCalls + 1
    /\ pPc' = IF pPc = "format" THEN "handler" ELSE "idle"
    /\ UNCHANGED <<panicMsg, pExpr, pArgs, panicArg, afterRuns>>
    /\ FmtFrame

\* megaton_panic(msg), assert.hpp lines 17, 24 and 30: the handler takes the
\* string and does not return
P_Handler ==
    /\ ~halted
    /\ pPc = "handler"
    /\ panicArg' = CStr(PANIC_FMT_BUFFER)
    /\ panicMsg' = IF pArgs.msg.name = "" THEN "panic" ELSE pArgs.msg.name
    /\ UNCHANGED <<pPc, pExpr, pArgs, PANIC_FMT_BUFFER, fmtRet, fmtCalls, afterRuns>>
    /\ FmtFrame

\* no thread is inside Get()
InitThreads ==
    /\ tPc = [t \in 1 .. NumThreads |-> "idle"]
    /\ tGot = [t \in 1 .. NumThreads |-> INVALID_HANDLE]
    /\ tOverlap = FALSE

\* ---------------------------------------------------------- specifications
InitStartup ==
    /\ panicMsg = ""
    /\ InitSoc
    /\ InitHandle
    /\ InitPages
    /\ layout = {0, CodeBase, CodeEnd}
    /\ InitBuilt
    /\ InitThreads
    /\ InitFmt

NextStartup ==
    \/ Soc_GetConfig
    \/ Soc_Switch
    \/ Soc_IsErista
    \/ Soc_IsMariko
    \/ Main_CallGet
    \/ GetSteps

\* process start: the thread that initialises the runtime calls InitSocType,
\* the SoC predicates and proc_handle::Get()
SpecStartup == InitStartup /\ [][NextStartup]_vars

Init ==
    /\ panicMsg = ""
    /\ InitSoc
    /\ hwConfig = "Icosa"
    /\ InitHandle
    /\ InitPages
    /\ InitBuilt
    /\ InitThreads
    /\ InitFmt

Next ==
    \/ Ctor_FindAslr
    \/ Ctor_Reserve
    \/ GetSteps
    \/ Ctor_WalkBegin
    \/ Walk_Step
    \/ Ctor_SetRw
    \/ Ctor_Finish
    \/ Flush
    \/ Copy
    \/ Dtor_Begin
    \/ Dtor_WalkBegin
    \/ Dtor_Release

\* the life of one RwPages object and of its non-owning copies
Spec == Init /\ [][Next]_vars


\* the steps of one RwPages object that is neither copied nor flushed
NextOwner ==
    \/ Ctor_FindAslr
    \/ Ctor_Reserve
    \/ GetSteps
    \/ Ctor_WalkBegin
    \/ Walk_Step
    \/ Ctor_SetRw
    \/ Ctor_Finish
    \/ Dtor_Begin
    \/ Dtor_WalkBegin
    \/ Dtor_Release

NextRelayout ==
    \/ NextOwner
    \/ Relayout

\* the life of one RwPages object while the kernel's block layout may change
\* between its construction and its teardown
SpecRelayout == Init /\ [][NextRelayout]_vars

\* the life of one RwPages object, from its construction to its teardown,
\* where a walk that can take a step takes one
SpecFair == Init /\ [][NextOwner]_vars /\ WF_vars(Walk_Step)

\* process start under a fair scheduler, every kernel call returning in the
\* end: a thread that can take a step takes one
SpecStartupFair ==
    /\ InitStartup
    /\ [][NextStartup]_vars
    /\ WF_vars(RequesterSteps)
    /\ WF_vars(WorkerSteps)

\* ------------------------------------ Get() called from several threads
\* s_Handle is a plain Handle (line 11) and Get() takes no lock: threads
\* interleave between its statements. The accesses to s_Handle race, so a
\* thread may work on the value it holds in a register in place of a second
\* load.
Threads == 1 .. NumThreads

\* the messages of the panic_ calls of the fallback (lines 23, 47, 55, 62, 77)
IpcPanics == {"svcCreateSession failed.", "svcCreateThread failed.",
              "svcStartThread failed.", "svcReplyAndReceive failed.",
              "svcWaitSynchronizationSingle failed."}

\* thread t calls proc_handle::Get() (line 93)
T_Call(t) ==
    /\ ~halted
    /\ tPc[t] = "idle"
    /\ getCalls < MaxThreadCalls
    /\ getCalls' = getCalls + 1
    /\ tPc' = [tPc EXCEPT ![t] = "check"]
    /\ tGot' = [tGot EXCEPT ![t] = INVALID_HANDLE]
    /\ tOverlap' = (tOverlap \/ (s_Handle = INVALID_HANDLE
                                   /\ \E u \in Threads \ {t} : tPc[u] # "idle"))
    /\ UNCHANGED <<panicMsg, s_Handle, mainPc, getRet, workerPc, openHandles,
                   reqPending, workerTls3, svcCalls, svcFailed, closeCalls,
                   getReturns, acqRuns, ipcRuns, handleWrites>>
    /\ UNCHANGED <<socVars, pageVars, buildVars, fmtVars>>

\* Get, line 94: the thread loads s_Handle and tests it
T_Check(t) ==
    /\ ~halted
    /\ tPc[t] = "check"
    /\ tPc' = [tPc EXCEPT ![t] = IF GetNeedsAcquire THEN "meso" ELSE "return"]
    /\ tGot' = [tGot EXCEPT ![t] = s_Handle]
    /\ UNCHANGED <<panicMsg, handleVars, tOverlap>>
    /\ UNCHANGED <<socVars, pageVars, buildVars, fmtVars>>

\* Get, lines 96-99 with GetViaMesosphere, lines 84-90
T_Mesosphere(t) ==
    /\ ~halted
    /\ tPc[t] = "meso"
    /\ acqRuns' = acqRuns + 1
    /\ \E r \in {"ok", "fail"} :
        /\ IF r = "ok"
           THEN \E h \in HandleValues :
                    /\ s_Handle' = h
                    /\ tGot' = [tGot EXCEPT ![t] = h]
                    /\ handleWrites' = handleWrites + 1
           ELSE UNCHANGED <<s_Handle, tGot, handleWrites>>
        /\ IF NeedsFallback(r)
           THEN /\ tPc' = [tPc EXCEPT ![t] = "ipc"]
                /\ ipcRuns' = ipcRuns + 1
           ELSE /\ tPc' = [tPc EXCEPT ![t] = "return"]
                /\ ipcRuns' = ipcRuns
    /\ UNCHANGED <<panicMsg, mainPc, getRet, workerPc, openHandles, reqPending,
                   workerTls3, svcCalls, svcFailed, closeCalls, getCalls, getReturns,
                   tOverlap>>
    /\ UNCHANGED <<socVars, pageVars, buildVars, fmtVars>>

\* Get, line 100 with GetViaIpcTrick, lines 39-82, and the worker, lines
\* 13-37: the session, the worker thread and the message are the calling
\* thread's own; a tested kernel call fails and the process panics, or the
\* worker writes s_Handle (line 27) and the thread has waited for it
T_IpcTrick(t) ==
    /\ ~halted
    /\ tPc[t] = "ipc"
    /\ \/ /\ \E msg \in IpcPanics : panicMsg' = msg
          /\ UNCHANGED <<s_Handle, handleWrites, tPc, tGot>>
       \/ /\ \E h \in HandleValues : s_Handle' = h
          /\ handleWrites' = handleWrites + 1
          /\ tPc' = [tPc EXCEPT ![t] = "return"]
          /\ tGot' = [tGot EXCEPT ![t] = INVALID_HANDLE]
          /\ UNCHANGED panicMsg
    /\ UNCHANGED <<mainPc, getRet, workerPc, openHandles, reqPending, workerTls3,
                   svcCalls, svcFailed, closeCalls, getCalls, getReturns, acqRuns,
                   ipcRuns, tOverlap>>
    /\ UNCHANGED <<socVars, pageVars, buildVars, fmtVars>>

\* the values return s_Handle (line 102) can yield in thread t: the value in
\* memory, or the value the thread loaded at line 94 or stored at line 87
\* when no call lies between that access and the return
ReturnValues(t) ==
    {s_Handle} \cup (IF tGot[t] # INVALID_HANDLE THEN {tGot[t]} ELSE {})

\* Get, line 102: return s_Handle
T_Return(t) ==
    /\ ~halted
    /\ tPc[t] = "return"
    /\ \E v \in ReturnValues(t) :
        /\ tGot' = [tGot EXCEPT ![t] = v]
        /\ getReturns' = Append(getReturns, v)
    /\ tPc' = [tPc EXCEPT ![t] = "idle"]
    /\ UNCHANGED <<panicMsg, s_Handle, mainPc, getRet, workerPc, openHandles,
                   reqPending, workerTls3, svcCalls, svcFailed, closeCalls, getCalls,
                   acqRuns, ipcRuns, handleWrites, tOverlap>>
    /\ UNCHANGED <<socVars, pageVars, buildVars, fmtVars>>

InitRace ==
    /\ panicMsg = ""
    /\ InitSoc
    /\ hwConfig = "Icosa"
    /\ InitHandle
    /\ InitPages
    /\ layout = {0, CodeBase, CodeEnd}
    /\ InitBuilt
    /\ InitThreads
    /\ InitFmt

NextRace ==
    \E t \in Threads :
        \/ T_Call(t)
        \/ T_Check(t)
        \/ T_Mesosphere(t)
        \/ T_IpcTrick(t)
        \/ T_Return(t)

\* several threads of the process call proc_handle::Get()
SpecRace == InitRace /\ [][NextRace]_vars

InitPanic ==
    /\ panicMsg = ""
    /\ InitSoc
    /\ hwConfig = "Icosa"
    /\ InitHandle
    /\ InitPages
    /\ layout = {0, CodeBase, CodeEnd}
    /\ InitBuilt
    /\ InitThreads
    /\ InitFmt

NextPanic ==
    \/ P_Assert
    \/ P_After
    \/ P_Panic
    \/ P_FormatCall
    \/ P_Format
    \/ P_Handler

\* code that asserts, panics and formats panic messages
SpecPanic == InitPanic /\ [][NextPanic]_vars

InitBuild ==
    /\ panicMsg = ""
    /\ InitSoc
    /\ hwConfig = "Icosa"
    /\ InitHandle
    /\ InitPages
    /\ layout = {0, CodeBase, CodeEnd}
    /\ InitThreads
    /\ InitFmt
    /\ JitSize \in CfgSizes
    /\ InlinePoolSize \in CfgSizes
    /\ buildResult = "pending"

NextBuild == StaticAsserts

\* the build of a configuration: the sanity checks of usersetting.hpp
SpecBuild == InitBuild /\ [][NextBuild]_vars

\* ------------------------------------------------------------------ claims
\* the bytes of [p, p + n) and of [q, q + n) are all mapped and pairwise equal
RangesEqual(p, q, n) ==
    \A k \in ChunkStarts(p, q, n) :
        /\ Read(Word(p + k)) # Fault
        /\ Read(Word(q + k)) # Fault
        /\ Read(Word(p + k)) = Read(Word(q + k))

\* the constructor of the object has returned and its mirror is not yet torn down
Constructed == objState[0] = "live"

\* C1: whenever the RwPages constructor has returned for (ro, size), every byte
\* of the mirror at [rw, rw + size) equals the byte of the source at
\* [ro, ro + size); a failed comparison ends in the panic path, never in a
\* constructed object.
C1_MirrorEqualsSource ==
    /\ Constructed =>
          RangesEqual(objClaim[0].m_Ro, objClaim[0].m_Rw, objClaim[0].m_Size)
    /\ "memcmp" \in ctorFailed => panicked /\ objState[0] = "constructing"

C1_Witness ==
    /\ Constructed
    /\ objClaim[0].m_Size = 3 * PAGE_SIZE
    /\ Len(mapCalls) >= 2

\* the end of the block that starts at b
BlockEnd(b) == SetMin({x \in layout : x > b} \cup {AddrSpace})
\* the blocks that meet [wStart, wStart + wLen)
Intersecting == {b \in layout : b < wStart + wLen /\ BlockEnd(b) > wStart}
\* the intersection of block b with the range, as (address, length, offset)
Intersection(b) ==
    [address |-> Max2(b, wStart),
     length |-> Min2(BlockEnd(b), wStart + wLen) - Max2(b, wStart),
     offset |-> Max2(b, wStart) - wStart]
\* the place of block b among the intersecting blocks, in ascending order
Rank(b) == Cardinality({x \in Intersecting : x <= b})
\* a walk of ForEachMemRange has just ended
WalkEnded == mainPc \in {"ctor_setrw", "ctor_finish", "dtor_release"}
\* the 3-page range at CodeBase, reported as blocks of 0x2000 and 0x1000
ThreePageScenario ==
    /\ layout = {0, CodeBase, CodeBase + 2 * PAGE_SIZE, CodeBase + 3 * PAGE_SIZE, CodeEnd}
    /\ wStart = CodeBase
    /\ wLen = 3 * PAGE_SIZE
    /\ mainPc = "ctor_finish"

\* C2: when a walk over [start, start + length) with length > 0 ends, the
\* callback has been invoked exactly once per block that meets the range, in
\* ascending order, each time with that block's intersection with the range
\* as (address, length, offset); the sub-ranges tile the range without gap or
\* overlap; the map calls carry the same lengths and offsets; and the 3-page
\* range reported as blocks of 0x2000 and 0x1000 gives exactly two map calls
\* with lengths 0x2000, 0x1000 and offsets 0x0, 0x2000.
C2_WalkTilesRange ==
    /\ (WalkEnded /\ wLen > 0 /\ wStart + wLen <= AddrSpace) =>
          /\ Len(walkCalls) = Cardinality(Intersecting)
          /\ \A b \in Intersecting : walkCalls[Rank(b)] = Intersection(b)
          /\ walkCalls[1].address = wStart
          /\ \A i \in 1 .. (Len(walkCalls) - 1) :
                walkCalls[i + 1].address = walkCalls[i].address + walkCalls[i].length
          /\ walkCalls[Len(walkCalls)].address + walkCalls[Len(walkCalls)].length
                = wStart + wLen
          /\ walkKind = "map" =>
                /\ Len(mapCalls) = Len(walkCalls)
                /\ \A i \in 1 .. Len(mapCalls) :
                      /\ mapCalls[i].ro = walkCalls[i].address
                      /\ mapCalls[i].size = walkCalls[i].length
                      /\ mapCalls[i].offset = walkCalls[i].offset
    /\ ThreePageScenario =>
          /\ Len(mapCalls) = 2
          /\ mapCalls[1].size = 2 * PAGE_SIZE /\ mapCalls[1].offset = 0
          /\ mapCalls[2].size = PAGE_SIZE /\ mapCalls[2].offset = 2 * PAGE_SIZE

C2_Witness == ThreePageScenario /\ ~halted

\* C3: in a sequence of Get() calls made one after another every call returns
\* the same handle value, the acquisition (fast path, and fallback if needed)
\* runs during the first call only, and the cache, once it holds a handle, is
\* not written again.
C3_GetIsIdempotent ==
    /\ \A i, j \in 1 .. Len(getReturns) : getReturns[i] = getReturns[j]
    /\ \A i \in 1 .. Len(getReturns) : getReturns[i] = s_Handle /\ s_Handle \in HandleValues
    /\ acqRuns <= 1
    /\ ipcRuns <= 1
    /\ Len(getReturns) >= 1 => mainPc \in {"idle", "get_check", "get_return"}
    /\ handleWrites <= 1
    /\ s_Handle # INVALID_HANDLE => handleWrites = 1

C3_Witness ==
    /\ Len(getReturns) >= 2
    /\ ipcRuns = 1

\* C4, the state part: only an owning object unmaps or releases, it does so
\* at most once for the mirror, and while the owner lives the reservation is
\* held and the mirror still shows the source.
C4_OnlyOwnerTearsDownInv ==
    /\ \A i \in 1 .. Len(unmapCalls) : objOwner[unmapCalls[i].by]
    /\ (unmapCalls # <<>> \/ releaseCount > 0) => objState[0] \in {"destroying", "destroyed"}
    /\ releaseCount <= 1
    /\ \A i, j \in 1 .. Len(unmapCalls) :
          i # j => unmapCalls[i].offset # unmapCalls[j].offset
    /\ Constructed =>
          /\ \E r \in reservations : r.id = objClaim[0].m_RwReserve
          /\ RangesEqual(objClaim[0].m_Ro, objClaim[0].m_Rw, objClaim[0].m_Size)

\* C4: destroying a non-owning RwPages performs no cache flush, no unmap and
\* no reservation release and leaves every mapping and the reservation as
\* they were, so the owner's mirror stays valid; unmap and release are done
\* only by the destruction of the owner, at most once for the mirror.
C4_OnlyOwnerTearsDown ==
    /\ []C4_OnlyOwnerTearsDownInv
    /\ [][(\E i \in ObjIds : /\ ~objOwner[i]
                             /\ objState[i] = "live"
                             /\ objState'[i] # "live")
            => /\ UNCHANGED <<mirror, reservations, cacheOps, unmapCalls, releaseCount>>
               /\ \A i \in ObjIds : objState'[i] \in {objState[i], "destroyed"}]_vars

C4_Witness ==
    /\ objState[1] = "destroyed"
    /\ Constructed
    /\ objClaim[0].m_Size > 0

\* C5: every map call of the constructor maps source aligned_ro + offset to
\* mirror aligned_rw + offset, and once the constructor has returned
\* rw - aligned_rw = ro - aligned_ro, rw and ro have the same offset within
\* their pages, and for every k in [0, size) the page at rw + k maps the page
\* at ro + k.
C5_OffsetsPreserved ==
    /\ \A i \in 1 .. Len(mapCalls) :
          /\ mapCalls[i].rw = Word(alignedRw + mapCalls[i].offset)
          /\ mapCalls[i].ro = Word(GetAlignedRo(objClaim[0]) + mapCalls[i].offset)
    /\ Constructed =>
          /\ Word(objClaim[0].m_Rw - alignedRw)
                = Word(objClaim[0].m_Ro - GetAlignedRo(objClaim[0]))
          /\ objClaim[0].m_Rw % PAGE_SIZE = objClaim[0].m_Ro % PAGE_SIZE
          /\ \A k \in ChunkStarts(objClaim[0].m_Ro, objClaim[0].m_Rw, objClaim[0].m_Size) :
                mirror[PageOf(Word(objClaim[0].m_Rw + k))]
                    = PageOf(Word(objClaim[0].m_Ro + k))

C5_Witness ==
    /\ Constructed
    /\ objClaim[0].m_Ro % PAGE_SIZE # 0
    /\ objClaim[0].m_Size > PAGE_SIZE
    /\ Len(mapCalls) >= 2

C7_NoPartialSuccess ==
    /\ ctorFailed # {} => panicked /\ objState[0] = "constructing"
    /\ objState[0] \in {"live", "destroying", "destroyed"} => ctorFailed = {}
    /\ \A i \in 1 .. (Len(mapCalls) - 1) : mapCalls[i].rc # "fail"
    /\ \A i, j \in 1 .. Len(mapCalls) : i # j => mapCalls[i].offset # mapCalls[j].offset
    /\ Cardinality(reservations) <= 1

C7_Witness ==
    /\ "svcQueryMemory" \in ctorFailed
    /\ Len(mapCalls) >= 1
    /\ panicked
    /\ objState[0] = "constructing"

C9_ClassifiedInOneFamily ==
    /\ [](initDone >= 1 =>
            /\ hwConfig \in {"Icosa", "Copper"} => s_SocType = "Erista"
            /\ hwConfig \in {"Hoag", "Iowa", "Calcio", "Aula"} => s_SocType = "Mariko"
            /\ hwConfig \in {"Icosa", "Copper", "Hoag", "Iowa", "Calcio", "Aula"}
            /\ IsSocErista # IsSocMariko)
    /\ [][(lastIsErista' # lastIsErista \/ lastIsMariko' # lastIsMariko)
            => UNCHANGED <<s_SocType, socWrites>>]_vars
    /\ [][(lastIsErista' # lastIsErista /\ initDone >= 1)
            => lastIsErista' = (IF hwConfig \in {"Icosa", "Copper"} THEN "true" ELSE "false")]_vars
    /\ [][(lastIsMariko' # lastIsMariko /\ initDone >= 1)
            => lastIsMariko' = (IF hwConfig \in {"Icosa", "Copper"} THEN "false" ELSE "true")]_vars

C9_Witness ==
    /\ initDone >= 1
    /\ hwConfig = "Aula"
    /\ lastIsMariko = "true"
    /\ lastIsErista = "false"

\* C10: when the hardware-type query fails, or reports a value outside the
\* six recognised ones, InitSocType ends in the panic path and does not
\* write the cached classification; no unrecognised value is given a family.
C10_UnknownHardwareIsFatal ==
    /\ [](/\ smcRc = "fail" => panicked
          /\ socWrites = initDone
          /\ hwConfig \notin RecognisedHw => socWrites = 0 /\ s_SocType = "Erista"
          /\ panicMsg = "unreachable" => hwConfig \notin RecognisedHw)
    /\ [][(~panicked /\ panicked') => UNCHANGED <<s_SocType, socWrites>>]_vars
    /\ [][(socPc = "switch" /\ socPc' # "switch") => hwConfig \in RecognisedHw]_vars
    /\ [][(socPc = "switch" /\ hwConfig \notin RecognisedHw)
            => panicMsg' = "unreachable"]_vars

C10_Witness ==
    /\ panicMsg = "unreachable"
    /\ hwConfig = "Unknown6"
    /\ socWrites = 0

\* C11: the build-time sanity checks accept a configuration exactly when
\* JitSize and InlinePoolSize are each a multiple of the page size, also
\* when the two sizes differ.
C11_AcceptedIffBothAligned ==
    buildResult # "pending" =>
        (buildResult = "accepted"
            <=> (JitSize % PAGE_SIZE = 0 /\ InlinePoolSize % PAGE_SIZE = 0))

SpanPages ==
    {p \in Pages : /\ alignedRw <= p * PAGE_SIZE
                   /\ p * PAGE_SIZE < alignedRw + GetAlignedSize(objClaim[0])}

\* C13: mirror construction follows a fixed order: the range is found and
\* reserved before any map call; every block's map call has completed before
\* the rw pointer is set and the comparison runs; the comparison runs, and
\* finds the views equal, before the constructor returns.
C13_ConstructionOrder ==
    /\ [](/\ mapCalls # <<>> =>
                /\ alignedRw # 0
                /\ objClaim[0].m_RwReserve # 0
          /\ (objState[0] = "constructing" /\ mapCalls # <<>>) =>
                \E r \in reservations : r.base = alignedRw
          /\ (objState[0] = "constructing" /\ objClaim[0].m_Rw # 0) =>
                /\ mainPc = "ctor_finish"
                /\ \A p \in SpanPages : mirror[p] # NoPage
                /\ \A i \in 1 .. Len(mapCalls) : mapCalls[i].rc # "fail"
          /\ Constructed => objClaim[0].m_Rw # 0)
    /\ [][alignedRw' # alignedRw => reservations = {} /\ mapCalls = <<>>]_vars
    /\ [][(reservations' # reservations /\ objState[0] = "constructing")
            => mapCalls = <<>> /\ alignedRw # 0]_vars
    /\ [][mapCalls' # mapCalls =>
            /\ objClaim[0].m_Rw = 0
            /\ objState[0] = "constructing" /\ objState'[0] = "constructing"]_vars
    /\ [][(objState[0] = "constructing" /\ objState'[0] = "live") =>
            /\ objClaim[0].m_Rw # 0
            /\ Memcmp(objClaim[0].m_Ro, objClaim[0].m_Rw, objClaim[0].m_Size) = "equal"
            /\ UNCHANGED <<objClaim, mapCalls, mirror>>]_vars

C13_Witness ==
    /\ Constructed
    /\ Len(mapCalls) >= 3
    /\ objClaim[0].m_Rw # 0

\* the owner's destructor has passed its cache maintenance
TeardownBegun == objState[0] \in {"destroying", "destroyed"}

\* C14: teardown of the owner follows a fixed order: the data-cache flush
\* over the read-write view and the instruction-cache invalidate over the
\* read-execute view come before the first unmap; every block of the range
\* is unmapped before the reservation is released; the release is the last
\* step and happens once. A failed unmap leads to the panic path and the
\* reservation is not released.
C14_TeardownOrder ==
    /\ [](/\ TeardownBegun =>
                /\ Len(cacheOps) >= 2
                /\ cacheOps[Len(cacheOps) - 1] =
                      [op |-> "armDCacheFlush", addr |-> objClaim[0].m_Rw,
                       size |-> objClaim[0].m_Size]
                /\ cacheOps[Len(cacheOps)] =
                      [op |-> "armICacheInvalidate", addr |-> objClaim[0].m_Ro,
                       size |-> objClaim[0].m_Size]
          /\ unmapCalls # <<>> => TeardownBegun
          /\ releaseCount <= 1
          /\ releaseCount = 1 =>
                /\ objState[0] = "destroyed"
                /\ reservations = {}
                /\ \A p \in Pages : mirror[p] = NoPage
                /\ \A i \in 1 .. Len(unmapCalls) : unmapCalls[i].rc = "ok"
                /\ unmapCalls # <<>>
                /\ unmapCalls[Len(unmapCalls)].offset + unmapCalls[Len(unmapCalls)].size
                      = GetAlignedSize(objClaim[0])
          /\ (\E i \in 1 .. Len(unmapCalls) : unmapCalls[i].rc = "fail") =>
                /\ panicked
                /\ releaseCount = 0
                /\ \E r \in reservations : r.id = objClaim[0].m_RwReserve)
    /\ [][unmapCalls' # unmapCalls =>
            /\ releaseCount' = 0
            /\ UNCHANGED <<cacheOps, reservations>>]_vars
    /\ [][releaseCount' # releaseCount =>
            /\ objState'[0] = "destroyed"
            /\ UNCHANGED <<unmapCalls, cacheOps, mirror>>]_vars
    /\ [][releaseCount = 1 =>
            UNCHANGED <<unmapCalls, cacheOps, mirror, reservations, releaseCount>>]_vars

C14_Witness ==
    /\ releaseCount = 1
    /\ Len(unmapCalls) >= 2
    /\ objClaim[0].m_Ro % PAGE_SIZE # 0

\* the worker is past line 27, the write of s_Handle
WorkerWroteHandle == workerPc \in {"close_session", "exit_thread", "exited"}
\* the requester is past the wait of line 75
RequesterPastWait ==
    ipcRuns = 1 /\ mainPc \in {"ipc_close_thread", "get_return", "idle"}

\* C15: in the fallback the worker writes the handle it received into the
\* cache before it closes its session handle and before it terminates, and
\* the requester gets past its wait only when the worker has terminated; so
\* in every interleaving, when Get() returns through the fallback the cache
\* holds the handle the worker received and it was written exactly once.
C15_HandleWrittenBeforeReturn ==
    /\ [](/\ WorkerWroteHandle =>
                /\ s_Handle = workerTls3
                /\ s_Handle \in HandleValues
                /\ handleWrites = 1
          /\ (ipcRuns = 1 /\ ~WorkerWroteHandle) =>
                /\ closeCalls["server_handle"] = 0
                /\ handleWrites = 0
                /\ s_Handle = INVALID_HANDLE
          /\ RequesterPastWait =>
                /\ workerPc = "exited"
                /\ s_Handle = workerTls3
                /\ handleWrites = 1
          /\ ipcRuns = 1 =>
                \A i \in 1 .. Len(getReturns) :
                    getReturns[i] = workerTls3 /\ getReturns[i] \in HandleValues)
    /\ [][closeCalls'["server_handle"] # closeCalls["server_handle"] =>
            s_Handle = workerTls3 /\ s_Handle # INVALID_HANDLE /\ workerPc' # "exited"]_vars
    /\ [][(workerPc # "exited" /\ workerPc' = "exited") =>
            /\ s_Handle # INVALID_HANDLE
            /\ closeCalls["server_handle"] = 1
            /\ ~RequesterPastWait]_vars

C15_Witness ==
    /\ ipcRuns = 1
    /\ Len(getReturns) >= 1
    /\ getReturns[1] = workerTls3
    /\ workerPc = "exited"
    /\ handleWrites = 1

\* the fallback is under way
InFallback == ipcRuns = 1 /\ getReturns = <<>>
\* Get() has returned to its caller
GetReturned == Len(getReturns) >= 1

\* C16: under fair scheduling, every kernel call returning in the end, the
\* fallback always completes: a worker blocked in reply-and-receive gets out
\* of it, a requester blocked in the sync request is unblocked, the worker
\* terminates, the requester's wait on the thread returns and Get() returns,
\* unless a kernel call fails and the run ends in the panic path. One worker
\* thread is created per fallback run and it receives one message.
C16_FallbackCompletes ==
    /\ [](/\ svcCalls["svcCreateThread"] <= 1
          /\ svcCalls["svcReplyAndReceive"] <= 1
          /\ svcCalls["svcSendSyncRequest"] <= 1
          /\ (InFallback /\ panicked) => svcFailed \cap CheckedSvcs # {}
          /\ GetReturned => svcFailed \cap CheckedSvcs = {}
          /\ (ipcRuns = 1 /\ GetReturned) =>
                /\ svcCalls["svcCreateThread"] = 1
                /\ svcCalls["svcReplyAndReceive"] = 1
                /\ workerPc = "exited")
    /\ (InFallback ~> (GetReturned \/ halted))
    /\ (workerPc = "receive" ~> (workerPc = "set_handle" \/ halted))
    /\ (mainPc = "ipc_send_blocked" ~> (mainPc = "ipc_close_client" \/ halted))
    /\ (workerPc = "set_handle" ~> (workerPc = "exited" \/ halted))
    /\ (mainPc = "ipc_wait" ~> (mainPc = "ipc_close_thread" \/ halted))

C16_Witness ==
    /\ ipcRuns = 1
    /\ GetReturned
    /\ svcCalls["svcReplyAndReceive"] = 1
    /\ svcCalls["svcWaitSynchronizationSingle"] = 1
    /\ workerPc = "exited"
    /\ ~halted

\* ------------------------------------------------------------------- C17
\* the end address of the block the walk looked at last
MemEnd(mi) == mi.addr + mi.size


\* one iteration of the walk: the query returned a block and the callback
\* was called
WalkQueried ==
    /\ mainPc = "walk"
    /\ Len(walkCalls') = Len(walkCalls) + 1

\* C17: the block walk terminates for every range and every layout of
\* positive-size blocks. Each query is made at the end address of the block
\* returned before (the first at the start of the range), so the block end
\* grows with every iteration; the walk goes on exactly while the block end
\* is below the end of the range, so it stops after the first block whose end
\* reaches or passes it; it makes one iteration per block of the range, and
\* a walk that keeps taking steps ends (or the process panics on a failed
\* kernel call).
C17_WalkTerminates ==
    /\ [][WalkQueried =>
            /\ meminfo'.size > 0
            /\ meminfo'.addr <= MemEnd(meminfo)
            /\ MemEnd(meminfo) < MemEnd(meminfo')
            /\ (Len(walkCalls) >= 1 => meminfo'.addr = MemEnd(meminfo))
            /\ (panicMsg' = panicMsg =>
                    /\ (mainPc' = "walk") = (MemEnd(meminfo') < WalkEnd)
                    /\ (mainPc' # "walk") = (MemEnd(meminfo') >= WalkEnd)
                    /\ mainPc' \in {"walk", WalkReturn})]_vars
    /\ []((mainPc = "walk" /\ ~panicked) =>
            /\ Len(walkCalls) < Max2(1, Cardinality(Intersecting))
            /\ (Len(walkCalls) >= 1 => MemEnd(meminfo) < WalkEnd))
    /\ []((WalkEnded /\ ~panicked) =>
            /\ Len(walkCalls) = Max2(1, Cardinality(Intersecting))
            /\ MemEnd(meminfo) >= WalkEnd)
    /\ (mainPc = "walk") ~> (WalkEnded \/ halted)

\* a walk over three blocks ended
C17_Witness ==
    /\ mainPc = "dtor_release"
    /\ ~panicked
    /\ Len(walkCalls) = 3
    /\ Cardinality(Intersecting) = 3

\* ------------------------------------------------------------------- C18
\* the span [aligned_ro, aligned_ro + aligned_size) holds [ro, ro + size)
RoRangeCovered(c) ==
    /\ GetAlignedRo(c) <= c.m_Ro
    /\ c.m_Ro + c.m_Size <= GetAlignedRo(c) + GetAlignedSize(c)

\* the pages the bytes of [rw, rw + size) lie on
RwPagesOf(c) ==
    IF c.m_Size = 0 THEN {} ELSE PageOf(c.m_Rw) .. PageOf(c.m_Rw + c.m_Size - 1)

\* every byte of [rw, rw + size) lies on a mapped page of the mirror range
RwMapped(c) ==
    \A p \in RwPagesOf(c) : p \in SpanPages /\ mirror[p] # NoPage

\* rounding the size up does not wrap the word
SizeFitsWord(c) ==
    c.m_Size + (c.m_Ro - GetAlignedRo(c)) + (PAGE_SIZE - 1) < AddrSpace

FlushCalled == flushCalls' = flushCalls + 1

\* the cache maintenance calls a step adds
NewCacheOps == SubSeq(cacheOps', Len(cacheOps) + 1, Len(cacheOps'))

\* C19: Flush() makes two calls, a data-cache flush and then an
\* instruction-cache invalidate, both over the aligned read-write range
\* [aligned_rw, aligned_rw + aligned_size), which is the reserved mirror
\* range; it changes no claim field, no mapping, no reservation and no
\* object's state, and it can be called again on a live object.
C19_FlushIsNonDestructive ==
    /\ [][FlushCalled =>
            /\ Len(NewCacheOps) = 2
            /\ NewCacheOps[1].op = "armDCacheFlush"
            /\ NewCacheOps[2].op = "armICacheInvalidate"
            /\ NewCacheOps[1].addr = NewCacheOps[2].addr
            /\ NewCacheOps[1].size = NewCacheOps[2].size
            /\ NewCacheOps[1].addr % PAGE_SIZE = 0
            /\ NewCacheOps[1].size % PAGE_SIZE = 0
            /\ \E r \in reservations :
                    r.base = NewCacheOps[1].addr /\ r.size = NewCacheOps[1].size
            /\ \E i \in ObjIds :
                    /\ objState[i] = "live"
                    /\ NewCacheOps[1].addr = ALIGN_DOWN(objClaim[i].m_Rw, PAGE_SIZE)
                    /\ NewCacheOps[1].addr <= objClaim[i].m_Rw
                    /\ objClaim[i].m_Rw + objClaim[i].m_Size
                            <= NewCacheOps[1].addr + NewCacheOps[1].size
            /\ UNCHANGED <<objClaim, mirror, reservations, objState, objOwner,
                           releaseCount, mapCalls, unmapCalls, panicMsg>>]_vars
    /\ []((Constructed /\ mainPc = "idle" /\ ~halted /\ flushCalls < MaxFlushCalls)
            => ENABLED Flush)

\* Flush() was called twice on an object whose rw pointer lies inside a page
C19_Witness ==
    /\ Constructed
    /\ flushCalls = 2
    /\ Len(cacheOps) = 4
    /\ objClaim[0].m_Rw % PAGE_SIZE # 0
    /\ cacheOps[3].addr = GetAlignedRw(objClaim[0])

\* ------------------------------------------------------------------- C20
\* the values the Get() calls have returned
Returned == {getReturns[k] : k \in 1 .. Len(getReturns)}

\* C20: Get() has no mutual exclusion of its own. A thread at the test of
\* line 94 goes on whatever the other threads are doing, and with the cache
\* empty it goes on to acquire; the cache is written more than once only
\* when a thread entered Get() while another was inside with the cache
\* empty, and then at most once per thread. When the first access is not
\* overlapped, the acquisition runs once, the cache is written exactly once
\* before the first return, and every Get() returns that one value.
C20_NoMutualExclusion ==
    /\ handleWrites <= NumThreads
    /\ handleWrites >= 2 => tOverlap /\ acqRuns >= 2
    /\ \A t \in Threads :
          (tPc[t] = "check" /\ ~halted) =>
              /\ ENABLED T_Check(t)
              /\ s_Handle = INVALID_HANDLE => ENABLED (T_Check(t) /\ tPc'[t] = "meso")
    /\ ~tOverlap =>
          /\ acqRuns <= 1
          /\ handleWrites <= 1
          /\ Returned \subseteq {s_Handle}
    /\ getReturns # <<>> =>
          /\ handleWrites >= 1
          /\ s_Handle # INVALID_HANDLE
          /\ INVALID_HANDLE \notin Returned

\* both threads ran the acquisition with the cache empty, the cache was
\* written twice, and the two calls returned different handles
C20_Witness ==
    /\ handleWrites = 2
    /\ acqRuns = 2
    /\ \A t \in Threads : tPc[t] = "idle" /\ tGot[t] # INVALID_HANDLE
    /\ tGot[1] # tGot[2]
    /\ Len(getReturns) = 2

\* the first access was not overlapped: one write, and a later call from
\* the other thread returned the cached value
C20_SerializedWitness ==
    /\ ~tOverlap
    /\ handleWrites = 1
    /\ Len(getReturns) = 3
    /\ \A t \in Threads : tPc[t] = "idle" /\ tGot[t] = s_Handle

\* ------------------------------------------------------------------- C21
\* the fallback ran and Get() has returned from it
FallbackCompleted == ipcRuns = 1 /\ Len(getReturns) >= 1

\* a step closes handle h
Closes(h) == closeCalls'[h] = closeCalls[h] + 1

\* a step makes (or, for the send, enters) the kernel call op
Calls(op) == svcCalls'[op] = svcCalls[op] + 1

\* C21: when the IPC fallback completes, each of its three kernel handles
\* has been closed exactly once, and none is used or closed again after its
\* close: the server handle is closed by the worker after it has read the
\* transferred handle, the client handle by the requester after the send has
\* returned, the thread handle by the requester after the wait on the thread
\* has returned with the worker terminated.
C21_HandlesClosedOnce ==
    /\ [](\A h \in IpcHandles :
            /\ closeCalls[h] <= 1
            /\ closeCalls[h] = 1 => h \notin openHandles)
    /\ [](FallbackCompleted =>
            /\ \A h \in IpcHandles : closeCalls[h] = 1
            /\ openHandles = {})
    /\ [][/\ \A h \in IpcHandles : Closes(h) => h \in openHandles
          /\ Calls("svcReplyAndReceive") => "server_handle" \in openHandles
          /\ mainPc = "ipc_send" => "client_handle" \in openHandles
          /\ Calls("svcSendSyncRequest") => "client_handle" \in openHandles
          /\ Calls("svcStartThread") => "thread_handle" \in openHandles
          /\ Calls("svcWaitSynchronizationSingle") => "thread_handle" \in openHandles
          /\ Closes("server_handle") =>
                /\ workerPc = "close_session"
                /\ handleWrites >= 1 /\ s_Handle = workerTls3
                /\ svcCalls["svcReplyAndReceive"] = 1
          /\ Closes("client_handle") =>
                /\ mainPc = "ipc_close_client"
                /\ svcCalls["svcSendSyncRequest"] = 1
          /\ Closes("thread_handle") =>
                /\ mainPc = "ipc_close_thread"
                /\ svcCalls["svcWaitSynchronizationSingle"] = 1
                /\ "svcWaitSynchronizationSingle" \notin svcFailed
                /\ workerPc = "exited"]_vars

\* the fallback completed: three handles were made and three closed
C21_Witness ==
    /\ FallbackCompleted
    /\ ~halted
    /\ \A h \in IpcHandles : closeCalls[h] = 1
    /\ svcCalls["svcCloseHandle"] = 3
    /\ workerPc = "exited"

\* ------------------------------------------------------------------- C22
\* the decimal digits of the line number, an unsigned value of 32 bits:
\* a long division by 10 over the two halves
LineDigits(line) ==
    LET r1 == line.hi % 10
        q  == (line.hi \div 10) * U32HalfRange + ((r1 * U32HalfRange + line.lo) \div 10)
        d  == (r1 * U32HalfRange + line.lo) % 10
    IN (IF q = 0 THEN <<>> ELSE DecimalOf(q)) \o <<DigitChars[d + 1]>>

\* "Panic at <file>:<line>:\n  <message>", <line> the decimal line number
PanicText(a) ==
    <<"P", "a", "n", "i", "c", " ", "a", "t", " ">> \o a.file.chars \o <<":">> \o LineDigits(a.line)
        \o <<":", "\n", " ", " ">> \o a.msg.chars

Prefix(str, n) == SubSeq(str, 1, Min2(Len(str), n))

\* the last call of megaton_format_panic_message has returned
Formatted == fmtCalls >= 1 /\ pPc \notin {"format", "format_direct"}

\* the buffer holds a null-terminated string of at most 1023 characters
BufferTerminated ==
    /\ Len(PANIC_FMT_BUFFER) = PANIC_FMT_BUFFER_SIZE
    /\ PANIC_FMT_BUFFER[PANIC_FMT_BUFFER_SIZE] = NUL
    /\ Len(CStr(PANIC_FMT_BUFFER)) <= PANIC_FMT_BUFFER_SIZE - 1

\* assert_ goes to the handler exactly when its expr is false, panic_ always,
\* and nothing runs once the handler has the string
PanicIsFinal ==
    /\ [](/\ pPc = "after" => pExpr = "true"
          /\ pPc \in {"format", "handler"} => pExpr \in {"false", "none"}
          /\ pExpr = "false" => pPc \in {"format", "handler"}
          /\ panicked => pPc = "handler" /\ panicArg = CStr(PANIC_FMT_BUFFER)
          /\ pPc = "handler" => fmtRet = "PANIC_FMT_BUFFER")
    /\ [][panicked => UNCHANGED vars]_vars

\* C22 as stated: for every (file, line, message) the function returns the
\* one static buffer, holding a null-terminated string of at most 1023
\* characters that is the prefix of "Panic at <file>:<line>:\n  <message>";
\* assert_ hands it to the panic handler exactly when expr is false, panic_
\* always, and nothing runs after the handler was called.
C22_PanicMessageFormatted ==
    /\ [](Formatted =>
            /\ fmtRet = "PANIC_FMT_BUFFER"
            /\ BufferTerminated
            /\ CStr(PANIC_FMT_BUFFER)
                   = Prefix(PanicText(pArgs), PANIC_FMT_BUFFER_SIZE - 1))
    /\ PanicIsFinal

\* the same for line numbers an int holds: the part of C22 the code keeps
PanicMessageFormattedForIntLines ==
    /\ [](Formatted =>
            /\ fmtRet = "PANIC_FMT_BUFFER"
            /\ BufferTerminated
            /\ pArgs.line.hi < U32HalfRange \div 2 =>
                  CStr(PANIC_FMT_BUFFER)
                     = Prefix(PanicText(pArgs), PANIC_FMT_BUFFER_SIZE - 1))
    /\ PanicIsFinal

\* a message one character too long was cut, after an earlier longer string
PanicTruncatedReached ==
    /\ panicked
    /\ pArgs.msg.name = "one over" /\ pArgs.file.name = "a.c" /\ pArgs.line = U32(0, 24)
    /\ Len(panicArg) = PANIC_FMT_BUFFER_SIZE - 1
    /\ fmtCalls = 2

\* the line number INT_MAX + 1 was formatted: the buffer has a minus sign
NegativeLineReached ==
    /\ Formatted
    /\ pArgs.line = U32(U32HalfRange \div 2, 0) /\ pArgs.file.name = "a.c"
    /\ pArgs.msg.name = "unreachable"
    /\ SubSeq(PANIC_FMT_BUFFER, 10, 25)
          = <<"a", ".", "c", ":", "-", "2", "1", "4", "7", "4", "8", "3", "6", "4", "8", ":">>

\* ------------------------------------------------------------------- C23
\* the end of the block of layout L that starts at b
BlockEndIn(L, b) == SetMin({x \in L : x > b} \cup {AddrSpace})
\* the parts of the blocks of layout L inside the range of length len at start
BlocksOfRange(L, start, len) ==
    { [ro |-> Max2(b, start),
       size |-> Min2(BlockEndIn(L, b), start + len) - Max2(b, start)] :
        b \in {x \in L : x < start + len /\ BlockEndIn(L, x) > start} }
\* the read-execute range of the object has the blocks it had at construction
SameLayout ==
    BlocksOfRange(layout, GetAlignedRo(objClaim[0]), GetAlignedSize(objClaim[0]))
        = BlocksOfRange(layoutAtMap, GetAlignedRo(objClaim[0]), GetAlignedSize(objClaim[0]))
Triple(call) == <<call.rw, call.ro, call.size>>
MapTriples == [k \in 1 .. Len(mapCalls) |-> Triple(mapCalls[k])]
OwnerUnmaps == SelectSeq(unmapCalls, LAMBDA u : u.by = 0)
UnmapTriples == [k \in 1 .. Len(OwnerUnmaps) |-> Triple(OwnerUnmaps[k])]
IsPrefixOf(a, b) == Len(a) <= Len(b) /\ a = SubSeq(b, 1, Len(a))

\* C23: with the block layout of the read-execute range as it was at
\* construction, the owning destructor issues its unmap calls with the
\* (mirror address, source address, length) triples of the constructor's map
\* calls, in the same order, the aligned rw base recomputed from m_Rw being
\* the base that was reserved; after the teardown no page of the mirror is
\* mapped and the reservation is released. With another block layout of the
\* range the triples differ.
C23_UnmapMirrorsMap ==
    /\ objState[0] \in {"live", "destroying", "destroyed"} =>
            GetAlignedRw(objClaim[0]) = alignedRw
    /\ SameLayout => IsPrefixOf(UnmapTriples, MapTriples)
    /\ objState[0] = "destroyed" =>
            /\ SameLayout => UnmapTriples = MapTriples
            /\ ~SameLayout => UnmapTriples # MapTriples
            /\ \A p \in Pages : mirror[p] = NoPage
            /\ reservations = {}
            /\ releaseCount = 1

\* a range that starts inside a page and spans two blocks was torn down with
\* the layout it was built with
C23_Witness ==
    /\ objState[0] = "destroyed"
    /\ layout = layoutAtMap
    /\ objClaim[0].m_Ro % PAGE_SIZE # 0
    /\ Len(mapCalls) = 2
    /\ UnmapTriples = MapTriples

\* a range mapped block by block was torn down after its blocks were merged
RelayoutTornDown ==
    /\ objState[0] = "destroyed"
    /\ ~SameLayout
    /\ Len(mapCalls) = 3 /\ Len(unmapCalls) = 1

\* the layout changed, but not inside the range of the object
RelayoutOutsideRange ==
    /\ objState[0] = "destroyed"
    /\ layout # layoutAtMap /\ SameLayout

\* ------------------------------------------------------------------- C24
\* the requester leaves GetViaIpcTrick: temp_thread_stack ends with the frame
LeavesIpcFrame == mainPc \in IpcFramePcs /\ mainPc' \notin IpcFramePcs

\* C24: the worker thread runs on temp_thread_stack, a local of the
\* requester's GetViaIpcTrick frame; in every interleaving the frame is live
\* for as long as the worker exists: GetViaIpcTrick returns only after the
\* wait on the thread has reported that the worker terminated, and it hands
\* the buffer to no second thread.
C24_StackFrameOutlivesWorker ==
    /\ [](/\ WorkerHoldsStack => mainPc \in IpcFramePcs
          /\ svcCalls["svcCreateThread"] <= ipcRuns
          /\ mainPc \in {"ipc_session", "ipc_thread"} => workerPc = "none")
    /\ [][LeavesIpcFrame =>
            /\ mainPc = "ipc_close_thread" /\ mainPc' = "get_return"
            /\ workerPc = "exited" /\ workerPc' = "exited"
            /\ svcCalls["svcWaitSynchronizationSingle"] = 1
            /\ "svcWaitSynchronizationSingle" \notin svcFailed]_vars
    /\ [][Calls("svcCreateThread") =>
            /\ mainPc = "ipc_thread" /\ workerPc = "none"
            /\ svcCalls["svcCreateThread"] = 0]_vars

\* the wait has returned to the requester, still inside GetViaIpcTrick, with
\* the worker terminated after it ran on the buffer
C24_Witness ==
    /\ mainPc = "ipc_close_thread"
    /\ workerPc = "exited"
    /\ handleWrites = 1
    /\ "thread_handle" \in openHandles
    /\ ~panicked

\* the requester is held in the wait while the worker still runs
WaitHoldsRequester ==
    /\ mainPc = "ipc_wait"
    /\ workerPc \in {"close_session", "exit_thread"}
    /\ ~panicked

\* ------------------------------------------------------------------- C25
\* a call of ForEachMemRange is made
WalkCalled == mainPc \in {"ctor_walk", "dtor_walk"} /\ mainPc' # mainPc
\* the svcMapProcessMemory and svcUnmapProcessMemory calls, in order of kind
MemCalls == mapCalls \o unmapCalls
\* the walk under way or just ended has stopped
WalkOver == WalkEnded \/ (mainPc = "walk" /\ panicked)

\* C25: ForEachMemRange makes at least one query, and where the query
\* answers at least one callback, for every input. With length 0 it invokes
\* the callback exactly once, with offset 0 and length 0, so a map or unmap
\* call of length 0 is issued; with length > 0 every callback has a length
\* above 0 and an offset below the walked length.
C25_WalkCallsBackAtLeastOnce ==
    /\ [](/\ WalkEnded => Len(walkCalls) >= 1
          /\ (WalkOver /\ panicMsg # "svcQueryMemory failed.") => Len(walkCalls) >= 1
          /\ wLen = 0 =>
                /\ Len(walkCalls) <= 1
                /\ \A k \in 1 .. Len(walkCalls) :
                      /\ walkCalls[k] = [address |-> wStart, length |-> 0, offset |-> 0]
                      /\ Len(MemCalls) >= 1
                      /\ IF walkKind = "map" THEN mapCalls[Len(mapCalls)].size = 0
                         ELSE unmapCalls[Len(unmapCalls)].size = 0
          /\ wLen > 0 =>
                \A k \in 1 .. Len(walkCalls) :
                    walkCalls[k].length > 0 /\ walkCalls[k].offset < wLen)
    /\ [][/\ WalkCalled => mainPc' = "walk" /\ walkCalls' = <<>>
          /\ (mainPc = "walk" /\ mainPc' # "walk") => WalkQueried
          /\ (mainPc = "walk" /\ panicMsg' # panicMsg) =>
                WalkQueried \/ panicMsg' = "svcQueryMemory failed."
          /\ WalkQueried =>
                /\ Len(MemCalls') = Len(MemCalls) + 1
                /\ walkCalls'[Len(walkCalls')].length =
                      (IF walkKind = "map" THEN mapCalls'[Len(mapCalls')].size
                       ELSE unmapCalls'[Len(unmapCalls')].size)]_vars

\* a walk of length 0 made its one callback: a map call of length 0
C25_Witness ==
    /\ mainPc = "walk" /\ walkKind = "map"
    /\ wLen = 0
    /\ walkCalls = <<[address |-> wStart, length |-> 0, offset |-> 0]>>
    /\ Len(mapCalls) = 1 /\ mapCalls[1].size = 0
    /\ panicMsg = "svcMapProcessMemory failed."

\* a walk of length 0 whose aligned size wrapped around to 0
ZeroLengthByWrapReached ==
    /\ wLen = 0 /\ Len(walkCalls) = 1
    /\ objClaim[0].m_Size > 0

\* a walk of positive length ended after three callbacks
ThreeCallbacksReached ==
    /\ WalkEnded /\ wLen > 0 /\ Len(walkCalls) = 3

====
